---- MODULE Spec2Model ----
(***************************************************************************)
(* GEKKO backend: the order executor (orders.py), the position ledger and  *)
(* session state (state.py, market.py), the two strategy state machines    *)
(* (strategies.py) and the command handlers and driver loop (main.py).     *)
(*                                                                         *)
(* Prices are whole rupees, deltas hundredths, volatilities percent.  An   *)
(* optional value (Python None) is a sequence of length 0 or 1.  The       *)
(* strategy driver is one asyncio task: `pc` is its position, and the      *)
(* other asyncio handlers (the commands) run only while it is suspended at *)
(* an await (AtAwait).  The price stream is a thread of its own and runs   *)
(* at any time.                                                            *)
(***************************************************************************)
EXTENDS Integers, Sequences, FiniteSets, TLC

\* ------------------------------------------------------------------ bounds
MaxTicks  == 3      \* strategy ticks started by the driver loop
MaxFeed   == 1      \* price ticks delivered by the stream
MaxCmds   == 2      \* UI commands handled
MaxCalls  == 3      \* executor calls made by the executor harness
MaxFaults == 1      \* strategy ticks that raise
MaxAppends == 203   \* add_log calls made by the log harness
MaxMinute == 1      \* minutes the clock advances while the log harness runs

\* ------------------------------------------------------- program constants
LimitTimeout          == 10      \* _wait_for_fill(order_id, timeout=10)
MarketTimeout         == 15      \* _wait_for_fill(order_id, timeout=15)
ScanEvery             == 60      \* _scan_counter % 60
LogCap                == 200     \* self._log[-200:]
SolverTol             == 1       \* tol=1e-5 rupees, in units of 1e-5 rupee
SolverMaxIter         == 200     \* max_iter=200
SigmaGuess            == 200     \* sigma = 0.20, in thousandths
SigmaMin              == 1       \* max(0.001, ...)
SigmaMax              == 5000    \* min(sigma, 5.0)
StrikeStep            == 50      \* step = 50
RollPoints            == 50      \* roll / adjust distance
DefaultLtp            == 5       \* hedge_ltp = 5.0 when the quote raises
MinOI                 == 500000  \* o["oi"] > 500_000
capital               == 500000
target_pct            == 5       \* 0.005, in thousandths
sl_pct                == 5       \* 0.005, in thousandths
lot_size              == 50
max_legs              == 6
max_rolls             == 5
iv_mismatch_threshold == 2
pre_noon_hedge_pts    == 400
decay_trigger_pct     == 50      \* 0.50, in hundredths
iv_rank_entry         == 60
condor_wing_width     == 100
delta_short_min       == 20      \* 0.20, in hundredths
delta_short_max       == 30
adjustment_delta      == 45
vix_52w_low           == 10
vix_52w_high          == 35

None    == <<>>
Some(x) == <<x>>

\* ------------------------------------------------------------------ values
Prices     == {20, 40, 100}                 \* last traded / fill prices
Sides      == {"buy", "sell"}
Terminal   == {"COMPLETE", "REJECTED", "CANCELLED"}
NoToken    == 0                             \* token=None
ATM        == 440 * StrikeStep              \* round(spot / step) * step
HighOI     == MinOI + 100000                \* an open interest above the floor

\* f"NIFTY{expiry}{strike}{opt_type}": the expiry is the same all session
Symbol(strike, type) == << "NIFTY", strike, type >>

\* The instrument master's token of a contract of the chain
TokenOf(strike, type) == IF type = "CE" THEN strike + 1 ELSE strike + 2

VARIABLES
    kite,             \* state.kite is set (broker connectivity)
    market_hours,     \* what state.is_market_hours() answers now
    vix,              \* state.vix
    iv_rank,          \* state.iv_rank
    active_strategy,  \* state.active_strategy: "None", "A", "B"
    positions,        \* state.positions: the ledger, a sequence of legs
    session_pnl,      \* state.session_pnl
    roll_count,       \* state.roll_count
    option_chain,     \* state.option_chain: a sequence of contract quotes
    strat_a,          \* StrategyA: entered, short_leg, hedge_leg, _scan_counter
    strat_b,          \* StrategyB: entered, short_ce, short_pe, _scan_counter
    pc,               \* position of the driver task (or of the harness caller)
    frame,            \* local variables of the tick that is suspended
    call,             \* the place_order call in flight, and the broker's side of it
    ret,              \* what the last place_order call returned: None or Some(leg)
    next_order_id,    \* the broker's next order id
    hist,             \* what the executor did during the current/last call
    tick,             \* what the current/last strategy tick did
    latched,          \* the target branch fired and session_pnl has not been below target since
    closing,          \* the close orders of the last close_position / close_all_positions
    fed,              \* the last option tick the price stream delivered, and the
                      \* statement its thread has reached in handling it
    solver,           \* the implied_volatility call the pricing harness is running
    priced,           \* what the pricing harness's last full_greeks call was given and returned
    log,              \* state._log as the log harness fills it: no decision reads
                      \* the log, and the handlers' own entries are left out
    budget            \* steps taken so far: ticks, feed, cmds, calls

vars == << kite, market_hours, vix, iv_rank, active_strategy, positions, session_pnl,
           roll_count, option_chain, strat_a, strat_b, pc, frame, call, ret,
           next_order_id, hist, tick, latched, closing, fed, log, solver,
           priced, budget >>

sessionVars  == << kite, market_hours, vix, iv_rank >>
strategyVars == << active_strategy, roll_count, strat_a, strat_b, frame, tick, latched >>

\* ------------------------------------------------------------ order executor
NoCall == [ at |-> "none", symbol |-> Symbol(0, "CE"), side |-> "buy", price |-> 0,
            token |-> NoToken,
            order_id |-> 0, polls |-> 0, limit_status |-> "NONE", market_status |-> "NONE",
            cont |-> "idle" ]

\* What the executor did in the current (or last) place_order call: broker calls
\* attempted, how each wait ended ("NONE" while it has not), the fill price it
\* read, the ledger when the call began, and which kinds of broker call raised.
NoHist == [ limits |-> 0, markets |-> 0, cancels |-> 0, cancel_first |-> TRUE,
            limit_end |-> "NONE", market_end |-> "NONE", seen_price |-> 0,
            appended |-> 0, before |-> <<>>, raised |-> {} ]

\* How the broker may behave: whether kite.orders() can fail to show an order
\* (visibility), the statuses an open order can have by the next poll,
\* whether it fills at any price or at the order's limit price, and whether
\* cancel_order returns (TRUE) or raises (FALSE).  The brisk broker decides
\* every order before the first poll, so a cancel finds nothing to cancel.
AnyBroker   == [ visibility |-> BOOLEAN, statuses |-> {"OPEN"} \cup Terminal,
                 at_limit |-> FALSE, cancels |-> BOOLEAN ]
BriskBroker == [ visibility |-> {TRUE},  statuses |-> {"COMPLETE", "REJECTED"},
                 at_limit |-> TRUE, cancels |-> {FALSE} ]

\* kite.orders() did not show the order: the call returned without it, or it
\* raised (orders.py 118-119)
PollThrows(visible) == IF visible THEN {FALSE} ELSE BOOLEAN

\* the kinds of broker call that raised, one more if `threw`
Raised(h, threw, kind) == IF threw THEN h.raised \cup {kind} ELSE h.raised

\* the average prices the broker may report for a filled order
Fills(broker, c) == IF broker.at_limit THEN {c.price} ELSE Prices

\* What a broker order's status can be by the time it is next looked at.
StatusNow(s, broker) == IF s = "OPEN" THEN broker.statuses ELSE {s}

\* a leg that records the limit price of the order instead of the fill price
NewLegAtLimit(c, filled_price) ==
    [ symbol |-> c.symbol, token |-> c.token, side |-> c.side, qty |-> lot_size,
      entry |-> c.price, ltp |-> c.price, pnl |-> 0, order_id |-> c.order_id ]

\* pos = {...} (orders.py 65-75)
NewLeg(c, filled_price) ==
    [ symbol |-> c.symbol, token |-> c.token, side |-> c.side, qty |-> lot_size,
      entry |-> filled_price, ltp |-> filled_price, pnl |-> 0, order_id |-> c.order_id ]

\* One iteration of _wait_for_fill after its sleep: the order list was fetched
\* (visible) or the call raised / the order was not listed.
WaitStep(status, visible) ==
    IF visible /\ status = "COMPLETE" THEN "filled"
    ELSE IF visible /\ status \in {"REJECTED", "CANCELLED"} THEN "none"
    ELSE "again"

\* How a wait that returned r after `polls` iterations ended.
WaitEnd(r, status, polls, timeout) ==
    IF r \in {"filled", "none"} THEN status
    ELSE IF polls = timeout THEN "TIMEOUT" ELSE "NONE"

\* The caller starts place_order(symbol, side, qty, price, token): the next
\* executor step is the LIMIT submission.
PlaceBegin(symbol, side, price, token, cont) ==
    /\ call' = [NoCall EXCEPT !.at = "submit", !.symbol = symbol, !.side = side,
                              !.price = price, !.token = token, !.cont = cont]
    /\ hist' = [NoHist EXCEPT !.before = positions]

\* place_order returns: the caller resumes at call.cont without an await.
PlaceReturn(c, result) ==
    /\ call' = [c EXCEPT !.at = "returned"]
    /\ ret'  = result
    /\ pc'   = c.cont

\* a failure path that records a leg all the same
PlaceFailRecording(c, h) ==
    /\ PlaceReturn(c, None)
    /\ hist' = [h EXCEPT !.appended = @ + 1]
    /\ positions' = Append(positions, NewLeg(c, c.price))

\* lines 61-63 and 81-84: filled_price is None, or a broker call raised
PlaceFail(c, h) ==
    /\ PlaceReturn(c, None)
    /\ hist' = h
    /\ UNCHANGED positions

\* lines 65-79: a fill was confirmed
PlaceFilled(c, h, filled_price) ==
    /\ positions' = Append(positions, NewLeg(c, filled_price))
    /\ hist' = [h EXCEPT !.appended = @ + 1]
    /\ PlaceReturn(c, Some(NewLeg(c, filled_price)))

\* lines 34-44: kite.place_order(LIMIT) is accepted or raises (lines 81-84).
\* Order ids are opaque: the broker's counter advances with every submission.
PlaceSubmit ==
    /\ call.at = "submit"
    /\ \E accepted \in BOOLEAN :
         IF accepted
         THEN /\ call' = [call EXCEPT !.at = "limit", !.order_id = next_order_id,
                                      !.limit_status = "OPEN", !.polls = 0]
              /\ next_order_id' = next_order_id + 1
              /\ hist' = [hist EXCEPT !.limits = @ + 1]
              /\ UNCHANGED << positions, ret, pc >>
         ELSE /\ PlaceFail(call, [hist EXCEPT !.limits = @ + 1,
                                              !.raised = Raised(hist, TRUE, "submit")])
              /\ next_order_id' = next_order_id + 1
    /\ UNCHANGED << sessionVars, fed, log, solver, priced, strategyVars, session_pnl, option_chain, closing, budget >>

\* an escalation that goes to the MARKET order without a cancel attempt
EscalateUncancelled(c, h, cancelled, accepted) ==
    LET h2 == [h EXCEPT !.markets = @ + 1, !.cancel_first = (@ /\ h.cancels > 0)]
    IN  IF accepted
        THEN /\ call' = [c EXCEPT !.at = "market", !.market_status = "OPEN", !.polls = 0]
             /\ hist' = h2
             /\ UNCHANGED << positions, ret, pc >>
        ELSE PlaceFail(c, [h2 EXCEPT !.raised = Raised(h2, TRUE, "market")])

\* lines 52-59 and 86-103: the LIMIT wait returned None: cancel (a failure is
\* swallowed), then _place_market.  `cancelled` is whether the broker took the
\* cancellation, `accepted` whether it took the MARKET order.
Escalate(c, h, cancelled, accepted) ==
    LET c1 == [c EXCEPT !.limit_status = IF @ = "OPEN" /\ cancelled THEN "CANCELLED" ELSE @]
        h1 == [h EXCEPT !.cancels = @ + 1, !.raised = Raised(h, ~cancelled, "cancel")]
        h2 == [h1 EXCEPT !.markets = @ + 1, !.cancel_first = (@ /\ h1.cancels > 0)]
    IN  IF accepted
        THEN /\ call' = [c1 EXCEPT !.at = "market", !.market_status = "OPEN", !.polls = 0]
             /\ hist' = h2
             /\ UNCHANGED << positions, ret, pc >>
        ELSE PlaceFail(c1, [h2 EXCEPT !.raised = Raised(h2, TRUE, "market")])

\* a wait that goes round once more than its timeout
WindowOverLate(polls, timeout) == polls = timeout + 1

\* `for _ in range(timeout)`: the iteration just made was the last one
WindowOver(polls, timeout) == polls = timeout

\* lines 50-63: one iteration of _wait_for_fill(order_id, timeout=10) and, when
\* the wait ends, what place_order does with its result
LimitStep(status, visible, threw, avg, cancelled, accepted) ==
    LET r  == WaitStep(status, visible)
        c1 == [call EXCEPT !.limit_status = status, !.polls = @ + 1]
        h1 == [hist EXCEPT !.limit_end = WaitEnd(r, status, c1.polls, LimitTimeout),
                           !.seen_price = IF r = "filled" THEN avg ELSE @,
                           !.raised = Raised(hist, threw, "poll")]
    IN  CASE r = "filled" -> PlaceFilled(c1, h1, avg)
          [] r = "none" \/ (r = "again" /\ WindowOver(c1.polls, LimitTimeout)) ->
                Escalate(c1, h1, cancelled, accepted)
          [] OTHER -> /\ call' = c1
                      /\ hist' = h1
                      /\ UNCHANGED << positions, ret, pc >>

\* lines 100 and 61-79: one iteration of _wait_for_fill(order_id, timeout=15)
MarketStep(status, visible, threw, avg) ==
    LET r  == WaitStep(status, visible)
        c1 == [call EXCEPT !.market_status = status, !.polls = @ + 1]
        h1 == [hist EXCEPT !.market_end = WaitEnd(r, status, c1.polls, MarketTimeout),
                           !.seen_price = IF r = "filled" THEN avg ELSE @,
                           !.raised = Raised(hist, threw, "poll")]
    IN  CASE r = "filled" -> PlaceFilled(c1, h1, avg)
          [] r = "none" \/ (r = "again" /\ WindowOver(c1.polls, MarketTimeout)) ->
                PlaceFail(c1, h1)
          [] OTHER -> /\ call' = c1
                      /\ hist' = h1
                      /\ UNCHANGED << positions, ret, pc >>

\* A poll of the LIMIT order
PollLimit(broker) ==
    /\ call.at = "limit"
    /\ \E status \in StatusNow(call.limit_status, broker), visible \in broker.visibility,
          avg \in Fills(broker, call),
          cancelled \in broker.cancels, accepted \in BOOLEAN :
         \E threw \in PollThrows(visible) :
            LimitStep(status, visible, threw, avg, cancelled, accepted)
    /\ UNCHANGED << sessionVars, fed, log, solver, priced, strategyVars, session_pnl, option_chain, closing,
                    next_order_id, budget >>

\* A poll of the MARKET order.
PollMarket(broker) ==
    /\ call.at = "market"
    /\ \E status \in StatusNow(call.market_status, broker), visible \in broker.visibility,
          avg \in Fills(broker, call) :
         \E threw \in PollThrows(visible) :
            MarketStep(status, visible, threw, avg)
    /\ UNCHANGED << sessionVars, fed, log, solver, priced, strategyVars, session_pnl, option_chain, closing,
                    next_order_id, budget >>

\* ------------------------------------------------------------ pricing engine
\* BSGreeks.full_greeks at the session's spot and time to expiry, on the price
\* levels of the model: implied volatility (percent) and |delta| (hundredths)
\* rise with the premium; a price <= 0 gives all zeros.
\* gamma, theta and vega are not zero where a volatility is solved, and
\* fair_price is the market price again.
Greeks(iv, delta, fair_price) ==
    [ iv |-> iv, delta |-> delta, gamma |-> 1, theta |-> -1, vega |-> 1,
      fair_price |-> fair_price ]

AllZero == [ iv |-> 0, delta |-> 0, gamma |-> 0, theta |-> 0, vega |-> 0, fair_price |-> 0 ]

\* full_greeks without the test of the solved volatility
FullGreeksUnguarded(market_price) ==
    CASE market_price = 20 -> Greeks(12, 10, 20)
      [] market_price = 40 -> Greeks(17, 25, 40)
      [] OTHER             -> Greeks(19, 50, market_price)

FullGreeks(market_price) ==
    CASE market_price <= 0 -> AllZero
      [] market_price = 20 -> Greeks(12, 10, 20)
      [] market_price = 40 -> Greeks(17, 25, 40)
      [] OTHER             -> Greeks(19, 50, market_price)

\* ------------------------------------------------------- volatility solver
\* BSGreeks.price and BSGreeks.vega at spot 22000 and r = 0.065, for a call
\* struck at the money with a week to expiry ("atm_week") and a call struck at
\* 24000 with a day to expiry ("far_day").  Volatilities are thousandths,
\* prices units of 1e-5 rupee.  The fair value is tabulated at the knots and
\* linear between them; vega is its slope.  Where the slope is 0 here,
\* BSGreeks.vega is below 1e-10.
Contracts == {"atm_week", "far_day"}
Knots     == << 1, 50, 100, 150, 200, 300, 500, 1000, 3000, 5000 >>

BasePrice(c) == IF c = "atm_week" THEN 2740757 ELSE 0
Slopes(c) ==
    IF c = "atm_week"
    THEN << 97984, 120487, 121137, 121296, 121368, 121388, 121289, 120214, 116811 >>
    ELSE << 0, 0, 0, 0, 0, 36, 4843, 31553, 43543 >>

\* the segment of the table a volatility lies in
Segment(sigma) ==
    CHOOSE k \in 1..(Len(Knots) - 1) :
        /\ Knots[k] <= sigma
        /\ sigma < Knots[k + 1] \/ k = Len(Knots) - 1

RECURSIVE KnotPrice(_, _)
KnotPrice(c, k) ==
    IF k = 1 THEN BasePrice(c)
    ELSE KnotPrice(c, k - 1) + Slopes(c)[k - 1] * (Knots[k] - Knots[k - 1])

\* cls.price(S, K, T, r, sigma, opt_type)
BSPrice(c, sigma) ==
    LET k == Segment(sigma)
    IN  KnotPrice(c, k) + Slopes(c)[k] * (sigma - Knots[k])

\* cls.vega(S, K, T, r, sigma) * 100
BSVega(c, sigma) == Slopes(c)[Segment(sigma)]

Abs(x) == IF x < 0 THEN -x ELSE x

\* a clamp that has lost its upper limit
ClampFloorOnly(sigma) == IF sigma < SigmaMin THEN SigmaMin ELSE sigma

\* max(0.001, min(sigma, 5.0))
Clamp(sigma) == IF sigma < SigmaMin THEN SigmaMin ELSE IF sigma > SigmaMax THEN SigmaMax ELSE sigma

\* no implied_volatility call has been made
NoSolver == [ at |-> "idle", c |-> "atm_week", star |-> 0, market_price |-> 0,
              sigma |-> 0, iter |-> 0 ]

\* implied_volatility up to its loop (greeks.py 51-53); `star` is the
\* volatility the market price was computed at
SolverBegin(c, star, market_price) ==
    IF market_price <= 0
    THEN [ at |-> "returned", c |-> c, star |-> star, market_price |-> market_price,
           sigma |-> 0, iter |-> 0 ]
    ELSE [ at |-> "loop", c |-> c, star |-> star, market_price |-> market_price,
           sigma |-> SigmaGuess, iter |-> 0 ]

\* one pass of the Newton-Raphson loop (greeks.py 54-66)
SolverPass(s) ==
    IF s.iter >= SolverMaxIter
    THEN [s EXCEPT !.at = "returned"]
    ELSE LET p    == BSPrice(s.c, s.sigma)
             vega == BSVega(s.c, s.sigma)
         IN  IF Abs(vega) = 0
             THEN [s EXCEPT !.at = "returned"]
             ELSE LET sigma == Clamp(s.sigma - ((p - s.market_price) \div vega))
                  IN  IF Abs(BSPrice(s.c, sigma) - s.market_price) < SolverTol
                      THEN [s EXCEPT !.at = "returned", !.sigma = sigma]
                      ELSE [s EXCEPT !.sigma = sigma, !.iter = @ + 1]

\* ------------------------------------------------------------- chain scanner
\* The strikes the broker quotes at 3 or more, in the scan's enumeration order
\* (ascending strike, CE before PE).
Universe == << [strike |-> ATM, type |-> "CE"], [strike |-> ATM, type |-> "PE"] >>

\* What kite.quote answers for one contract during a scan: last price and open
\* interest, or nothing usable (the call raised, or the price is below 3).
Dropped     == << 0, 0 >>
ScanAnswers == { Dropped, << 40, HighOI >>, << 100, HighOI >> }

\* kite.quote for one contract outside a scan: the broker quotes no strike
\* outside the universe, so the call raises and the caller's fallback applies
QuoteOr(symbol, fallback) == fallback

\* what kite.quote answers for the strike a roll moves to: the call raises, or
\* a last price
RollQuotes == { None, Some(40) }

\* chain.append({...}) (strategies.py 62-82)
Quote(strike, type, ltp, oi, fair_iv) ==
    LET greeks == FullGreeks(ltp)
    IN  [ symbol |-> Symbol(strike, type), token |-> TokenOf(strike, type),
          strike |-> strike, type |-> type, ltp |-> ltp, oi |-> oi,
          iv |-> greeks.iv, delta |-> greeks.delta,
          iv_mismatch |-> greeks.iv - fair_iv,
          overpriced  |-> (greeks.iv - fair_iv >= iv_mismatch_threshold) ]

\* the loops over strikes and ("CE", "PE") (strategies.py 53-85) over the
\* contracts of `universe`, from the i-th on
RECURSIVE QuotedOf(_, _, _, _)
QuotedOf(universe, answers, fair_iv, i) ==
    IF i > Len(universe) THEN << >>
    ELSE (IF answers[i] = Dropped THEN << >>
          ELSE << Quote(universe[i].strike, universe[i].type,
                        answers[i][1], answers[i][2], fair_iv) >>)
         \o QuotedOf(universe, answers, fair_iv, i + 1)

Quoted(answers, fair_iv, i) == QuotedOf(Universe, answers, fair_iv, i)

\* a sort that puts a contract before the ones of equal score
InsertDescBeforeTies(sorted, x) ==
    LET k == Cardinality({ i \in 1..Len(sorted) : sorted[i].iv_mismatch > x.iv_mismatch })
    IN  SubSeq(sorted, 1, k) \o << x >> \o SubSeq(sorted, k + 1, Len(sorted))

\* chain.sort(key=iv_mismatch, reverse=True): stable, descending
InsertDesc(sorted, x) ==
    LET k == Cardinality({ i \in 1..Len(sorted) : sorted[i].iv_mismatch >= x.iv_mismatch })
    IN  SubSeq(sorted, 1, k) \o << x >> \o SubSeq(sorted, k + 1, Len(sorted))

RECURSIVE SortDesc(_)
SortDesc(chain) ==
    IF chain = << >> THEN << >>
    ELSE InsertDesc(SortDesc(SubSeq(chain, 1, Len(chain) - 1)), chain[Len(chain)])

\* OptionScanner.fetch_and_update_chain: the chain it stores and returns
FetchChain(answers) == SortDesc(Quoted(answers, vix, 1))

\* The same scan when the broker quotes two strikes: the enumeration is by
\* ascending strike, CE before PE.
WideUniverse == << [strike |-> ATM, type |-> "CE"], [strike |-> ATM, type |-> "PE"],
                   [strike |-> ATM + StrikeStep, type |-> "CE"],
                   [strike |-> ATM + StrikeStep, type |-> "PE"] >>
FetchWideChain(answers) == SortDesc(QuotedOf(WideUniverse, answers, vix, 1))

\* index of the first element of seq with this symbol, 0 when there is none:
\* next((x for x in seq if x["symbol"] == symbol), None)
IndexOf(seq, symbol) ==
    IF \E i \in 1..Len(seq) : seq[i].symbol = symbol
    THEN CHOOSE i \in 1..Len(seq) :
            /\ seq[i].symbol = symbol
            /\ \A j \in 1..(i - 1) : seq[j].symbol # symbol
    ELSE 0

\* ----------------------------------------------------------- position ledger
\* MarketFeed._calc_position_pnl
CalcPositionPnl(pos) ==
    (pos.ltp - pos.entry) * pos.qty * (IF pos.side = "buy" THEN 1 ELSE -1)

RECURSIVE SumPnl(_)
SumPnl(ledger) ==
    IF ledger = << >> THEN 0 ELSE ledger[1].pnl + SumPnl(Tail(ledger))

\* a recalculation that leaves the overpriced flag as it was
RecalcGreeksKeepingFlag(opt) ==
    IF opt.ltp <= 0 THEN opt
    ELSE LET g == FullGreeks(opt.ltp)
         IN  [opt EXCEPT !.iv = g.iv, !.delta = g.delta,
                         !.iv_mismatch = g.iv - vix]

\* MarketFeed._recalc_greeks on one contract after its ltp was set
RecalcGreeks(opt) ==
    IF opt.ltp <= 0 THEN opt
    ELSE LET g == FullGreeks(opt.ltp)
         IN  [opt EXCEPT !.iv = g.iv, !.delta = g.delta,
                         !.iv_mismatch = g.iv - vix,
                         !.overpriced = (g.iv - vix >= iv_mismatch_threshold)]

\* market.py 108-118: the first contract with this token is updated
TickChain(chain, token, last_price) ==
    IF \E i \in 1..Len(chain) : chain[i].token = token
    THEN LET i == CHOOSE i \in 1..Len(chain) :
                    /\ chain[i].token = token
                    /\ \A j \in 1..(i - 1) : chain[j].token # token
         IN  [chain EXCEPT ![i] = RecalcGreeks([@ EXCEPT !.ltp = last_price])]
    ELSE chain

\* market.py 121-124: every leg with this token is updated
TickLedger(ledger, token, last_price) ==
    [ i \in 1..Len(ledger) |->
        IF ledger[i].token = token
        THEN LET p == [ledger[i] EXCEPT !.ltp = last_price]
             IN  [p EXCEPT !.pnl = CalcPositionPnl(p)]
        ELSE ledger[i] ]

\* AgentState.add_log: append, then keep the last 200
AddLogKeepingFirst(entries, e) ==
    LET a == Append(entries, e)
    IN  IF Len(a) > LogCap THEN SubSeq(a, 1, LogCap) ELSE a

AddLog(entries, e) ==
    LET a == Append(entries, e)
    IN  IF Len(a) > LogCap THEN SubSeq(a, Len(a) - LogCap + 1, Len(a)) ELSE a

\* state.target_hit / state.sl_hit
Target   == (capital * target_pct) \div 1000
StopLoss == (capital * sl_pct) \div 1000
TargetHit == session_pnl >= Target
SlHit     == session_pnl <= -StopLoss

\* MarketFeed._update_iv_rank
IvRank(v) == ((v - vix_52w_low) * 100) \div (vix_52w_high - vix_52w_low)

\* OrderManager.close_position: the close order is accepted, or the submission
\* raises and the leg stays
RemoveFirst(ledger, pos) ==
    IF \E i \in 1..Len(ledger) : ledger[i] = pos
    THEN LET i == CHOOSE i \in 1..Len(ledger) :
                    /\ ledger[i] = pos
                    /\ \A j \in 1..(i - 1) : ledger[j] # pos
         IN  SubSeq(ledger, 1, i - 1) \o SubSeq(ledger, i + 1, Len(ledger))
    ELSE ledger

\* a close that leaves the leg in the ledger until a fill is confirmed
ClosePositionKeeping(ledger, pos, accepted) == ledger

ClosePosition(ledger, pos, accepted) ==
    IF accepted THEN RemoveFirst(ledger, pos) ELSE ledger

RECURSIVE CloseEach(_, _, _, _)
CloseEach(ledger, snapshot, accepted, i) ==
    IF i > Len(snapshot) THEN ledger
    ELSE CloseEach(ClosePosition(ledger, snapshot[i], accepted[i]), snapshot, accepted, i + 1)

\* a loop over the live ledger instead of a snapshot of it: the index moves on
\* while the legs before it are removed
RECURSIVE CloseLive(_, _, _)
CloseLive(ledger, accepted, i) ==
    IF i > Len(ledger) THEN ledger
    ELSE CloseLive(ClosePosition(ledger, ledger[i], accepted[i]), accepted, i + 1)

CloseAllLive(ledger, accepted) == CloseLive(ledger, accepted, 1)

\* OrderManager.close_all_positions: a snapshot of the ledger is closed leg by leg
CloseAllPositions(ledger, accepted) == CloseEach(ledger, ledger, accepted, 1)

\* close_position lines 124-136: the order it submits for a leg, and whether
\* the broker took it (the call returned) or the call raised
CloseOrder(pos, accepted) ==
    [ leg |-> pos, symbol |-> pos.symbol,
      side |-> IF pos.side = "buy" THEN "sell" ELSE "buy",
      qty |-> pos.qty, order_type |-> "MARKET", accepted |-> accepted ]

\* the close orders of close_all_positions, in the order it submits them
CloseOrders(snapshot, accepted) ==
    [ i \in 1..Len(snapshot) |-> CloseOrder(snapshot[i], accepted[i]) ]

\* no close operation has run yet
NoClosing == [ n |-> 0, op |-> "none", orders |-> << >>, at |-> "idle" ]

\* the record of one more close operation, and where the driver's task stood
\* when it ran
Closing(op, orders) == [ n |-> closing.n + 1, op |-> op, orders |-> orders, at |-> pc ]

\* which close submissions the broker accepts: while one handler runs it takes
\* orders or it refuses them
Acceptances(ledger) == { [ i \in 1..Len(ledger) |-> b ] : b \in BOOLEAN }

\* -------------------------------------------------------------- price stream
FeedTokens == { TokenOf(Universe[i].strike, Universe[i].type) : i \in 1..Len(Universe) }
VixLevels  == {15, 30}
FeedPrices == {20, 100}

\* no option tick has arrived yet
NoFeed == [ token |-> NoToken, last_price |-> 0, at |-> "idle", leg |-> 0 ]

\* MarketFeed._update_option_tick; the stream is started once state.kite is
\* set (ticker_loop, market.py 25)
FeedOptionTick ==
    /\ kite
    /\ budget.feed < MaxFeed
    /\ \E token \in FeedTokens, last_price \in FeedPrices :
         /\ fed' = [NoFeed EXCEPT !.token = token, !.last_price = last_price]
         /\ option_chain' = TickChain(option_chain, token, last_price)
         /\ positions' = TickLedger(positions, token, last_price)
         /\ session_pnl' = SumPnl(TickLedger(positions, token, last_price))
         /\ latched' = (latched /\ SumPnl(TickLedger(positions, token, last_price)) >= Target)
    /\ budget' = [budget EXCEPT !.feed = @ + 1]
    /\ UNCHANGED << sessionVars, log, solver, priced, active_strategy, roll_count, strat_a, strat_b, frame, tick,
                    closing,                    pc, call, ret, next_order_id, hist >>

\* ------------------------------------------- price stream, statement by statement
\* _update_option_tick runs on the ticker's thread (market.py 76-79): the
\* threads of the event loop and of the scans can run between any two of its
\* statements.  fed.at is the statement that comes next, fed.leg the index the
\* loop over the ledger has reached.
FirstWithToken(chain, token) ==
    IF \E i \in 1..Len(chain) : chain[i].token = token
    THEN CHOOSE i \in 1..Len(chain) :
            /\ chain[i].token = token
            /\ \A j \in 1..(i - 1) : chain[j].token # token
    ELSE 0

\* on_ticks hands a tick to _process_tick
StreamTick ==
    /\ kite
    /\ fed.at = "idle"
    /\ budget.feed < MaxFeed
    /\ \E token \in FeedTokens, last_price \in FeedPrices :
         fed' = [ token |-> token, last_price |-> last_price, at |-> "ltp", leg |-> 1 ]
    /\ budget' = [budget EXCEPT !.feed = @ + 1]
    /\ UNCHANGED << sessionVars, log, solver, priced, active_strategy, roll_count, strat_a,
                    strat_b, frame, tick, closing, pc, call, ret, next_order_id, hist,
                    option_chain, positions, session_pnl, latched >>

\* the next statement on the contract: opt["ltp"] = ... (market.py 111),
\* opt.update(g) (149), opt["iv_mismatch"] = ... (152), opt["overpriced"] = ... (153)
StreamChain ==
    /\ fed.at \in {"ltp", "greeks", "score", "flag"}
    /\ LET i == FirstWithToken(option_chain, fed.token)
       IN  IF i = 0
           THEN /\ fed' = [fed EXCEPT !.at = "ledger"]
                /\ UNCHANGED option_chain
           ELSE LET opt == option_chain[i]
                    g   == FullGreeks(opt.ltp)
                IN  CASE fed.at = "ltp" ->
                           /\ option_chain' = [option_chain EXCEPT ![i].ltp = fed.last_price]
                           /\ fed' = [fed EXCEPT !.at = IF fed.last_price <= 0
                                                        THEN "ledger" ELSE "greeks"]
                      [] fed.at = "greeks" ->
                           /\ option_chain' = [option_chain EXCEPT ![i].iv = g.iv,
                                                                   ![i].delta = g.delta]
                           /\ fed' = [fed EXCEPT !.at = "score"]
                      [] fed.at = "score" ->
                           /\ option_chain' = [option_chain EXCEPT
                                                 ![i].iv_mismatch = opt.iv - vix]
                           /\ fed' = [fed EXCEPT !.at = "flag"]
                      [] OTHER ->
                           /\ option_chain' = [option_chain EXCEPT
                                                 ![i].overpriced =
                                                    (opt.iv_mismatch >= iv_mismatch_threshold)]
                           /\ fed' = [fed EXCEPT !.at = "ledger"]
    /\ UNCHANGED << sessionVars, log, solver, priced, active_strategy, roll_count, strat_a,
                    strat_b, frame, tick, closing, pc, call, ret, next_order_id, hist,
                    positions, session_pnl, latched, budget >>

\* the next statement on the ledger: pos["ltp"] = ... (market.py 123),
\* pos["pnl"] = ... (124), and after the loop state.session_pnl = sum(...) (127)
StreamLedger ==
    /\ fed.at \in {"ledger", "pnl"}
    /\ IF fed.leg > Len(positions)
       THEN /\ session_pnl' = SumPnl(positions)
            /\ latched' = (latched /\ SumPnl(positions) >= Target)
            /\ fed' = [fed EXCEPT !.at = "idle", !.leg = 0]
            /\ UNCHANGED positions
       ELSE /\ IF positions[fed.leg].token # fed.token
               THEN /\ fed' = [fed EXCEPT !.leg = @ + 1]
                    /\ UNCHANGED positions
               ELSE IF fed.at = "ledger"
               THEN /\ positions' = [positions EXCEPT ![fed.leg].ltp = fed.last_price]
                    /\ fed' = [fed EXCEPT !.at = "pnl"]
               ELSE /\ positions' = [positions EXCEPT
                                       ![fed.leg].pnl = CalcPositionPnl(positions[fed.leg])]
                    /\ fed' = [fed EXCEPT !.at = "ledger", !.leg = @ + 1]
            /\ UNCHANGED << session_pnl, latched >>
    /\ UNCHANGED << sessionVars, log, solver, priced, active_strategy, roll_count, strat_a,
                    strat_b, frame, tick, closing, pc, call, ret, next_order_id, hist,
                    option_chain, budget >>

\* ----------------------------------------------------------- strategy engine
NoFrame == [ opt |-> None, hedge_sym |-> Symbol(0, "CE"), hedge_ltp |-> 0, first |-> None,
             legs |-> << >>, sc |-> None, sp |-> None, sides |-> << >> ]

\* What a tick did: its number, the variant, the branch it took, the closes it
\* submitted, the place_order calls it started, the fills returned
\* to it, whether it saw a delta breach with the roll budget used up, and
\* whether it started a roll with the budget used up, and roll_count as the
\* tick found it.
NoTick == [ n |-> 0, who |-> "-", branch |-> "-", closes |-> 0, places |-> 0,
            fills |-> 0, exhausted |-> FALSE, late |-> FALSE, skips |-> 0,
            rolls |-> 0 ]

Filled(result) == IF result = None THEN 0 ELSE 1

\* the contract a strategy keeps a reference to
Ref(symbol, strike, type, entry) ==
    [ symbol |-> symbol, strike |-> strike, type |-> type, entry |-> entry ]

\* a driver loop that goes on to the tick at any hour
DriverAwakeAnyHour == kite

\* strategy_monitor_loop, line 79: the iteration goes on to the tick
DriverAwake == market_hours /\ kite

\* the driver task is suspended at an await: other handlers may run
AtAwait ==
    \/ pc \in {"idle", "a_scan", "a_enter_scan", "b_scan", "b_enter_scan", "b_leg_sleep"}
    \/ pc = "place" /\ call.at \in {"limit", "market"}

\* the tick returns to the driver loop: its frames are gone
EndTick(t) ==
    /\ pc' = "idle"
    /\ frame' = NoFrame
    /\ tick' = t
    /\ call' = NoCall
    /\ hist' = NoHist

\* a roll guard that lets the counter pass the maximum
RollAllowedInclusive == roll_count <= max_rolls

\* self.state.roll_count < self.state.config["max_rolls"]
RollAllowed == roll_count < max_rolls

\* decay_pct >= decay_trigger_pct, with decay_pct = 1 - ltp/entry if entry > 0 else 0
DecayReached(current_ltp, entry_premium) ==
    /\ entry_premium > 0
    /\ 100 * (entry_premium - current_ltp) >= decay_trigger_pct * entry_premium

\* StrategyA._reset / StrategyB._reset.  StrategyA._reset also sets
\* state.roll_count = 0 (the conjunct of ExitA); StrategyB._reset does not.
ResetA(a) == [a EXCEPT !.entered = FALSE, !.short_leg = None, !.hedge_leg = None]
ResetB(b) == [b EXCEPT !.entered = FALSE, !.short_ce = None, !.short_pe = None]

\* close_all_positions(); active_strategy = None; _reset(); return
ExitA(a, t) ==
    /\ \E accepted \in Acceptances(positions) :
         /\ positions' = CloseAllPositions(positions, accepted)
         /\ closing' = Closing("close_all_positions", CloseOrders(positions, accepted))
    /\ active_strategy' = "None"
    /\ strat_a' = ResetA(a)
    /\ roll_count' = 0
    /\ EndTick([t EXCEPT !.closes = Len(positions)])
    /\ UNCHANGED strat_b

ExitB(b, t) ==
    /\ \E accepted \in Acceptances(positions) :
         /\ positions' = CloseAllPositions(positions, accepted)
         /\ closing' = Closing("close_all_positions", CloseOrders(positions, accepted))
    /\ active_strategy' = "None"
    /\ strat_b' = ResetB(b)
    /\ EndTick([t EXCEPT !.closes = Len(positions)])
    /\ UNCHANGED << strat_a, roll_count >>

\* ---- variant A
\* OptionScanner.hedge_pts: by the hour of the day; the session runs before noon
HedgePts == {pre_noon_hedge_pts}

\* StrategyA._enter up to its first await
EnterA(a, t, chain) ==
    LET Eligible(o) == o.iv_mismatch >= iv_mismatch_threshold /\ o.oi > MinOI
        candidates  == SelectSeq(chain, Eligible)
    IN  IF candidates = << >>
        THEN /\ EndTick(t)
             /\ strat_a' = a
             /\ UNCHANGED << positions, closing, active_strategy, roll_count, strat_b, latched >>
        ELSE \E hedge_pts \in HedgePts :
               LET sell_opt     == candidates[1]
                   hedge_strike == IF sell_opt.type = "CE"
                                   THEN sell_opt.strike + hedge_pts
                                   ELSE sell_opt.strike - hedge_pts
               IN  /\ frame' = [NoFrame EXCEPT
                                  !.opt = Some(Ref(sell_opt.symbol, sell_opt.strike, sell_opt.type, 0)),
                                  !.hedge_sym = Symbol(hedge_strike, sell_opt.type),
                                  !.hedge_ltp = QuoteOr(Symbol(hedge_strike, sell_opt.type),
                                                        DefaultLtp)]
                   /\ PlaceBegin(sell_opt.symbol, "sell", sell_opt.ltp, sell_opt.token,
                                 "a_enter_hedge")
                   /\ pc' = "place"
                   /\ strat_a' = a
                   /\ tick' = [t EXCEPT !.places = @ + 1]
                   /\ UNCHANGED << positions, closing, active_strategy, roll_count, strat_b, latched >>

\* StrategyA._roll up to its first await
RollA(a, t, current_opt) ==
    LET j          == IndexOf(positions, a.short_leg[1].symbol)
        direction  == IF current_opt.type = "CE" THEN 1 ELSE -1
        new_strike == current_opt.strike + RollPoints * direction
        new_symbol == Symbol(new_strike, current_opt.type)
        t1         == [t EXCEPT !.late = (roll_count >= max_rolls),
                                !.closes = IF j = 0 THEN 0 ELSE 1]
    IN  /\ roll_count' = roll_count + 1
        /\ \E accepted \in BOOLEAN :
             IF j = 0 THEN UNCHANGED << positions, closing >>
             ELSE /\ positions' = ClosePosition(positions, positions[j], accepted)
                  /\ closing' = Closing("close_position",
                                   << CloseOrder(positions[j], accepted) >>)
        /\ \E quote \in RollQuotes :
             IF quote # None
             THEN /\ PlaceBegin(new_symbol, "sell", quote[1], NoToken, "a_roll_done")
                  /\ pc' = "place"
                  /\ frame' = [NoFrame EXCEPT
                                 !.opt = Some(Ref(new_symbol, new_strike, current_opt.type, 0))]
                  /\ tick' = [t1 EXCEPT !.places = @ + 1]
             ELSE EndTick(t1)
        /\ strat_a' = a
        /\ UNCHANGED << active_strategy, strat_b, latched >>

\* StrategyA._monitor_positions
MonitorA(a, t, chain) ==
    LET i == IndexOf(chain, a.short_leg[1].symbol)
    IN  IF i = 0
        THEN /\ EndTick(t)
             /\ strat_a' = a
             /\ UNCHANGED << positions, closing, active_strategy, roll_count, strat_b, latched >>
        ELSE IF DecayReached(chain[i].ltp, a.short_leg[1].entry)
        THEN /\ ExitA(a, [t EXCEPT !.branch = "decay"])
             /\ UNCHANGED latched
        ELSE IF chain[i].delta > adjustment_delta /\ RollAllowed
        THEN RollA(a, [t EXCEPT !.branch = "roll"], chain[i])
        ELSE /\ EndTick([t EXCEPT !.exhausted = (chain[i].delta > adjustment_delta)])
             /\ strat_a' = a
             /\ UNCHANGED << positions, closing, active_strategy, roll_count, strat_b, latched >>

\* StrategyA.tick from its exit checks on; `a` is the strategy with the scan
\* counter already advanced, `chain` the chain as it stands now
BodyA(a, chain) ==
    LET t == [NoTick EXCEPT !.n = tick.n + 1, !.who = "A", !.rolls = roll_count]
    IN  IF TargetHit
        THEN /\ ExitA(a, [t EXCEPT !.branch = "target"])
             /\ latched' = TRUE
        ELSE IF SlHit
        THEN /\ ExitA(a, [t EXCEPT !.branch = "sl"])
             /\ UNCHANGED latched
        ELSE IF ~a.entered /\ Len(positions) = 0
        THEN IF chain = << >>
             THEN /\ pc' = "a_enter_scan"
                  /\ strat_a' = a
                  /\ tick' = [t EXCEPT !.branch = "enter"]
                  /\ UNCHANGED << positions, closing, active_strategy, roll_count, strat_b, latched,
                                  frame, call, hist >>
             ELSE EnterA(a, [t EXCEPT !.branch = "enter"], chain)
        ELSE IF a.entered /\ a.short_leg # None
        THEN MonitorA(a, [t EXCEPT !.branch = "monitor"], chain)
        ELSE /\ EndTick([t EXCEPT !.branch = "none"])
             /\ strat_a' = a
             /\ UNCHANGED << positions, closing, active_strategy, roll_count, strat_b, latched >>

\* strategy_monitor_loop wakes and calls strat_a.tick(): up to its first await
TickA ==
    /\ pc = "idle"
    /\ DriverAwake
    /\ active_strategy = "A"
    /\ budget.ticks < MaxTicks
    /\ LET a == [strat_a EXCEPT !.scan_counter = @ + 1]
       IN  IF a.scan_counter % ScanEvery = 0
           THEN /\ pc' = "a_scan"
                /\ strat_a' = a
                /\ UNCHANGED << positions, closing, active_strategy, roll_count, strat_b, latched,
                                frame, tick, call, hist >>
           ELSE BodyA(a, option_chain)
    /\ budget' = [budget EXCEPT !.ticks = @ + 1]
    /\ ret' = None
    /\ UNCHANGED << sessionVars, fed, log, solver, priced, session_pnl, option_chain, next_order_id >>

\* the 60th-tick rescan has run in the executor: the tick goes on
ScannedA ==
    /\ pc = "a_scan"
    /\ \E answers \in [1..Len(Universe) -> ScanAnswers] :
         /\ option_chain' = FetchChain(answers)
         /\ BodyA(strat_a, FetchChain(answers))
    /\ ret' = None
    /\ UNCHANGED << sessionVars, fed, log, solver, priced, session_pnl, next_order_id, budget >>

\* the entry found the chain empty and scanned: _enter(chain)
EnterScannedA ==
    /\ pc = "a_enter_scan"
    /\ \E answers \in [1..Len(Universe) -> ScanAnswers] :
         /\ option_chain' = FetchChain(answers)
         /\ EnterA(strat_a, tick, FetchChain(answers))
    /\ ret' = None
    /\ UNCHANGED << sessionVars, fed, log, solver, priced, session_pnl, next_order_id, budget >>

\* _enter after the short order returned: the hedge order
EnterHedgeA ==
    /\ pc = "a_enter_hedge"
    /\ frame' = [frame EXCEPT !.first = ret]
    /\ PlaceBegin(frame.hedge_sym, "buy", frame.hedge_ltp, NoToken, "a_enter_done")
    /\ pc' = "place"
    /\ tick' = [tick EXCEPT !.places = @ + 1, !.fills = @ + Filled(ret)]
    /\ ret' = None
    /\ UNCHANGED << sessionVars, fed, log, solver, priced, positions, closing, session_pnl, option_chain, active_strategy,
                    roll_count, strat_a, strat_b, latched, next_order_id, budget >>

\* _enter after the hedge order returned (strategies.py 204-207)
EnterDoneA ==
    /\ pc = "a_enter_done"
    /\ strat_a' = IF frame.first # None /\ ret # None
                  THEN [strat_a EXCEPT
                          !.entered = TRUE,
                          !.short_leg = Some([frame.opt[1] EXCEPT !.entry = frame.first[1].entry]),
                          !.hedge_leg = ret]
                  ELSE strat_a
    /\ EndTick([tick EXCEPT !.fills = @ + Filled(ret)])
    /\ ret' = None
    /\ UNCHANGED << sessionVars, fed, log, solver, priced, positions, closing, session_pnl, option_chain, active_strategy,
                    roll_count, strat_b, latched, next_order_id, budget >>

\* _roll after the replacement order returned (strategies.py 268-270)
RollDoneA ==
    /\ pc = "a_roll_done"
    /\ strat_a' = IF ret # None
                  THEN [strat_a EXCEPT
                          !.short_leg = Some([frame.opt[1] EXCEPT !.entry = ret[1].entry])]
                  ELSE strat_a
    /\ EndTick([tick EXCEPT !.fills = @ + Filled(ret)])
    /\ ret' = None
    /\ UNCHANGED << sessionVars, fed, log, solver, priced, positions, closing, session_pnl, option_chain, active_strategy,
                    roll_count, strat_b, latched, next_order_id, budget >>

\* ---- variant B
\* the monitoring loop goes on to the sides left, or the tick ends
NextSide(rest, t) ==
    IF rest = << >>
    THEN EndTick(t)
    ELSE /\ pc' = "b_monitor"
         /\ frame' = [NoFrame EXCEPT !.sides = rest]
         /\ tick' = t
         /\ call' = NoCall
         /\ hist' = NoHist

\* a band test that has lost its upper limit
DeltaInBandNoCeiling(delta) == delta_short_min <= delta

\* dmin <= abs(o["delta"]) <= dmax; the model's delta is the magnitude
DeltaInBand(delta) == delta_short_min <= delta /\ delta <= delta_short_max

\* StrategyB._enter up to its first await
EnterB(b, t, chain) ==
    LET InBand(o) == DeltaInBand(o.delta)
        IsCE(o)   == o.type = "CE" /\ InBand(o)
        IsPE(o)   == o.type = "PE" /\ InBand(o)
        ce_cands  == SelectSeq(chain, IsCE)
        pe_cands  == SelectSeq(chain, IsPE)
    IN  IF ce_cands = << >> \/ pe_cands = << >>
        THEN /\ EndTick(t)
             /\ strat_b' = b
             /\ UNCHANGED << positions, closing, active_strategy, roll_count, strat_a, latched >>
        ELSE LET sc == ce_cands[1]
                 sp == pe_cands[1]
                 lc_sym == Symbol(sc.strike + condor_wing_width, "CE")
                 lp_sym == Symbol(sp.strike - condor_wing_width, "PE")
                 wings  == QuoteOr(lc_sym, DefaultLtp) # DefaultLtp
                               /\ QuoteOr(lp_sym, DefaultLtp) # DefaultLtp
                 lc_ltp == IF wings THEN QuoteOr(lc_sym, DefaultLtp) ELSE DefaultLtp
                 lp_ltp == IF wings THEN QuoteOr(lp_sym, DefaultLtp) ELSE DefaultLtp
             IN  /\ frame' = [NoFrame EXCEPT
                                !.legs = << << lc_sym, "buy", lc_ltp >>,
                                            << sp.symbol, "sell", sp.ltp >>,
                                            << lp_sym, "buy", lp_ltp >> >>,
                                !.sc = Some(Ref(sc.symbol, sc.strike, sc.type, 0)),
                                !.sp = Some(Ref(sp.symbol, sp.strike, sp.type, 0))]
                 /\ PlaceBegin(sc.symbol, "sell", sc.ltp, NoToken, "b_leg_sleep")
                 /\ pc' = "place"
                 /\ strat_b' = b
                 /\ tick' = [t EXCEPT !.places = @ + 1]
                 /\ UNCHANGED << positions, closing, active_strategy, roll_count, strat_a, latched >>

\* StrategyB.tick from its exit checks on
BodyB(b, chain) ==
    LET t == [NoTick EXCEPT !.n = tick.n + 1, !.who = "B", !.rolls = roll_count]
    IN  IF TargetHit
        THEN /\ ExitB(b, [t EXCEPT !.branch = "target"])
             /\ latched' = TRUE
        ELSE IF SlHit
        THEN /\ ExitB(b, [t EXCEPT !.branch = "sl"])
             /\ UNCHANGED latched
        ELSE IF ~b.entered
        THEN IF iv_rank >= iv_rank_entry
             THEN IF chain = << >>
                  THEN /\ pc' = "b_enter_scan"
                       /\ strat_b' = b
                       /\ tick' = [t EXCEPT !.branch = "enter"]
                       /\ UNCHANGED << positions, closing, active_strategy, roll_count, strat_a, latched,
                                       frame, call, hist >>
                  ELSE EnterB(b, [t EXCEPT !.branch = "enter"], chain)
             ELSE /\ EndTick([t EXCEPT !.branch = "wait"])
                  /\ strat_b' = b
                  /\ UNCHANGED << positions, closing, active_strategy, roll_count, strat_a, latched >>
        ELSE /\ NextSide(<< "CE", "PE" >>, [t EXCEPT !.branch = "monitor"])
             /\ strat_b' = b
             /\ UNCHANGED << positions, closing, active_strategy, roll_count, strat_a, latched >>

\* strategy_monitor_loop wakes and calls strat_b.tick(): up to its first await
TickB ==
    /\ pc = "idle"
    /\ DriverAwake
    /\ active_strategy = "B"
    /\ budget.ticks < MaxTicks
    /\ LET b == [strat_b EXCEPT !.scan_counter = @ + 1]
       IN  IF b.scan_counter % ScanEvery = 0
           THEN /\ pc' = "b_scan"
                /\ strat_b' = b
                /\ UNCHANGED << positions, closing, active_strategy, roll_count, strat_a, latched,
                                frame, tick, call, hist >>
           ELSE BodyB(b, option_chain)
    /\ budget' = [budget EXCEPT !.ticks = @ + 1]
    /\ ret' = None
    /\ UNCHANGED << sessionVars, fed, log, solver, priced, session_pnl, option_chain, next_order_id >>

ScannedB ==
    /\ pc = "b_scan"
    /\ \E answers \in [1..Len(Universe) -> ScanAnswers] :
         /\ option_chain' = FetchChain(answers)
         /\ BodyB(strat_b, FetchChain(answers))
    /\ ret' = None
    /\ UNCHANGED << sessionVars, fed, log, solver, priced, session_pnl, next_order_id, budget >>

EnterScannedB ==
    /\ pc = "b_enter_scan"
    /\ \E answers \in [1..Len(Universe) -> ScanAnswers] :
         /\ option_chain' = FetchChain(answers)
         /\ EnterB(strat_b, tick, FetchChain(answers))
    /\ ret' = None
    /\ UNCHANGED << sessionVars, fed, log, solver, priced, session_pnl, next_order_id, budget >>

\* _enter after a leg's order returned and the 0.5 s pause: the next leg, or
\* the end of the loop (strategies.py 376-382)
NextLegB ==
    /\ pc = "b_leg_sleep"
    /\ IF frame.legs # << >>
       THEN /\ PlaceBegin(frame.legs[1][1], frame.legs[1][2], frame.legs[1][3], NoToken,
                       "b_leg_sleep")
            /\ pc' = "place"
            /\ frame' = [frame EXCEPT !.legs = Tail(@)]
            /\ tick' = [tick EXCEPT !.places = @ + 1, !.fills = @ + Filled(ret)]
            /\ UNCHANGED strat_b
       ELSE /\ strat_b' = [strat_b EXCEPT !.entered = TRUE,
                                          !.short_ce = frame.sc, !.short_pe = frame.sp]
            /\ EndTick([tick EXCEPT !.fills = @ + Filled(ret)])
    /\ ret' = None
    /\ UNCHANGED << sessionVars, fed, log, solver, priced, positions, closing, session_pnl, option_chain, active_strategy,
                    roll_count, strat_a, latched, next_order_id, budget >>

\* StrategyB._adjust_wing up to its first await
AdjustWing(t, current, opt_type, rest) ==
    LET j          == IndexOf(positions, current.symbol)
        direction  == IF opt_type = "CE" THEN 1 ELSE -1
        new_strike == current.strike + RollPoints * direction
        new_symbol == Symbol(new_strike, opt_type)
        t1         == [t EXCEPT !.late = (@ \/ roll_count >= max_rolls),
                                !.closes = IF j = 0 THEN @ ELSE @ + 1]
    IN  /\ roll_count' = roll_count + 1
        /\ \E accepted \in BOOLEAN :
             IF j = 0 THEN UNCHANGED << positions, closing >>
             ELSE /\ positions' = ClosePosition(positions, positions[j], accepted)
                  /\ closing' = Closing("close_position",
                                   << CloseOrder(positions[j], accepted) >>)
        /\ \E quote \in RollQuotes :
             IF quote # None
             THEN /\ PlaceBegin(new_symbol, "sell", quote[1], NoToken, "b_adjust_done")
                  /\ pc' = "place"
                  /\ frame' = [NoFrame EXCEPT
                                 !.opt = Some(Ref(new_symbol, new_strike, opt_type, 0)),
                                 !.sides = rest]
                  /\ tick' = [t1 EXCEPT !.places = @ + 1]
             ELSE NextSide(rest, t1)

\* StrategyB._monitor: one side of the loop
MonitorB ==
    /\ pc = "b_monitor"
    /\ LET opt_type == frame.sides[1]
           rest     == Tail(frame.sides)
           short    == IF opt_type = "CE" THEN strat_b.short_ce ELSE strat_b.short_pe
           i        == IF short = None THEN 0 ELSE IndexOf(option_chain, short[1].symbol)
       IN  IF i = 0
           THEN /\ NextSide(rest, tick)
                /\ UNCHANGED << positions, closing, roll_count >>
           ELSE IF option_chain[i].delta > adjustment_delta /\ RollAllowed
           THEN AdjustWing(tick, option_chain[i], opt_type, rest)
           ELSE /\ NextSide(rest, [tick EXCEPT !.exhausted =
                                      (@ \/ option_chain[i].delta > adjustment_delta)])
                /\ UNCHANGED << positions, closing, roll_count >>
    /\ ret' = None
    /\ UNCHANGED << sessionVars, fed, log, solver, priced, session_pnl, option_chain, active_strategy, strat_a, strat_b,
                    latched, next_order_id, budget >>

\* _adjust_wing after the replacement order returned (strategies.py 423-427)
AdjustDoneB ==
    /\ pc = "b_adjust_done"
    /\ strat_b' = IF ret = None THEN strat_b
                  ELSE IF frame.opt[1].type = "CE"
                  THEN [strat_b EXCEPT !.short_ce = frame.opt]
                  ELSE [strat_b EXCEPT !.short_pe = frame.opt]
    /\ NextSide(frame.sides, [tick EXCEPT !.fills = @ + Filled(ret)])
    /\ ret' = None
    /\ UNCHANGED << sessionVars, fed, log, solver, priced, positions, closing, session_pnl, option_chain, active_strategy,
                    roll_count, strat_a, latched, next_order_id, budget >>

\* ------------------------------------------------------------------ commands
Names == {"A", "B"}

\* POST /strategy/start/{name}
RestStart ==
    /\ AtAwait
    /\ budget.cmds < MaxCmds
    /\ \E name \in Names :
         active_strategy' = IF kite /\ active_strategy = "None" THEN name ELSE active_strategy
    /\ budget' = [budget EXCEPT !.cmds = @ + 1]
    /\ UNCHANGED << sessionVars, fed, log, solver, priced, positions, closing, session_pnl, option_chain, roll_count, strat_a,
                    strat_b, frame, tick, latched, pc, call, ret, next_order_id, hist >>

\* msg.get("strategy", "A"): whatever the client sent, A and B or not
WsNames == Names \cup {"C"}

\* handle_ws_message, cmd == "start_strategy"
WsStart ==
    /\ AtAwait
    /\ budget.cmds < MaxCmds
    /\ \E name \in WsNames :
         active_strategy' = IF kite THEN name ELSE active_strategy
    /\ budget' = [budget EXCEPT !.cmds = @ + 1]
    /\ UNCHANGED << sessionVars, fed, log, solver, priced, positions, closing, session_pnl, option_chain, roll_count, strat_a,
                    strat_b, frame, tick, latched, pc, call, ret, next_order_id, hist >>

\* POST /strategy/stop
RestStop ==
    /\ AtAwait
    /\ budget.cmds < MaxCmds
    /\ IF active_strategy # "None"
       THEN /\ \E accepted \in Acceptances(positions) :
                 /\ positions' = CloseAllPositions(positions, accepted)
                 /\ closing' = Closing("close_all_positions",
                                   CloseOrders(positions, accepted))
            /\ active_strategy' = "None"
       ELSE UNCHANGED << positions, closing, active_strategy >>
    /\ budget' = [budget EXCEPT !.cmds = @ + 1]
    /\ UNCHANGED << sessionVars, fed, log, solver, priced, session_pnl, option_chain, roll_count, strat_a,
                    strat_b, frame, tick, latched, pc, call, ret, next_order_id, hist >>

\* handle_ws_message, cmd == "stop"
WsStop ==
    /\ AtAwait
    /\ budget.cmds < MaxCmds
    /\ \E accepted \in Acceptances(positions) :
         /\ positions' = CloseAllPositions(positions, accepted)
         /\ closing' = Closing("close_all_positions", CloseOrders(positions, accepted))
    /\ active_strategy' = "None"
    /\ budget' = [budget EXCEPT !.cmds = @ + 1]
    /\ UNCHANGED << sessionVars, fed, log, solver, priced, session_pnl, option_chain, roll_count, strat_a,
                    strat_b, frame, tick, latched, pc, call, ret, next_order_id, hist >>

\* ------------------------------------------------------------------ session
\* strategy_monitor_loop wakes outside market hours or before the login: it
\* goes back to sleep (main.py 78-80).  The wake-up is counted.
DriverSkip ==
    /\ pc = "idle"
    /\ ~DriverAwake
    /\ budget.ticks < MaxTicks
    /\ budget' = [budget EXCEPT !.ticks = @ + 1]
    /\ tick' = [tick EXCEPT !.skips = @ + 1]
    /\ UNCHANGED << sessionVars, fed, log, solver, priced, positions, closing, session_pnl, option_chain,
                    active_strategy, roll_count, strat_a, strat_b, frame, latched,
                    pc, call, ret, next_order_id, hist >>

\* ZerodhaAuth._save_and_apply: the login sets state.kite
Login ==
    /\ ~kite
    /\ kite' = TRUE
    /\ UNCHANGED << market_hours, vix, iv_rank, fed, log, solver, priced, positions, closing, session_pnl,
                    option_chain, strategyVars, pc, call, ret, next_order_id, hist, budget >>

\* the clock passes 15:15: state.is_market_hours() answers False from now on
MarketClose ==
    /\ market_hours
    /\ market_hours' = FALSE
    /\ UNCHANGED << kite, vix, iv_rank, fed, log, solver, priced, positions, closing, session_pnl,
                    option_chain, strategyVars, pc, call, ret, next_order_id, hist, budget >>

\* --------------------------------------------------------- executor harness
\* A caller of the executor alone: it places orders one after the other.
HarnessOrders == { << Symbol(ATM, "CE"), "sell", 40 >>,
                   << Symbol(ATM + pre_noon_hedge_pts, "CE"), "buy", DefaultLtp >> }

HarnessPlace ==
    /\ pc = "idle"
    /\ budget.calls < MaxCalls
    /\ \E o \in HarnessOrders : PlaceBegin(o[1], o[2], o[3], NoToken, "idle")
    /\ pc' = "place"
    /\ budget' = [budget EXCEPT !.calls = @ + 1]
    /\ UNCHANGED << sessionVars, fed, log, solver, priced, strategyVars, positions, closing, session_pnl, option_chain,
                    ret, next_order_id >>

\* which close submissions the broker accepts when each is decided on its own
AnyAcceptances(ledger) == [ 1..Len(ledger) -> BOOLEAN ]

\* The caller calls close_position on a leg it found in the ledger.
HarnessClose ==
    /\ pc = "idle"
    /\ budget.calls < MaxCalls
    /\ \E j \in 1..Len(positions), accepted \in BOOLEAN :
         /\ positions' = ClosePosition(positions, positions[j], accepted)
         /\ closing' = Closing("close_position",
                                   << CloseOrder(positions[j], accepted) >>)
         /\ hist' = [NoHist EXCEPT !.before = positions']
    /\ call' = NoCall
    /\ budget' = [budget EXCEPT !.calls = @ + 1]
    /\ UNCHANGED << sessionVars, fed, log, solver, priced, strategyVars, session_pnl, option_chain, pc, ret,
                    next_order_id >>

\* The caller calls close_all_positions.
HarnessCloseAll ==
    /\ pc = "idle"
    /\ budget.calls < MaxCalls
    /\ \E accepted \in AnyAcceptances(positions) :
         /\ positions' = CloseAllPositions(positions, accepted)
         /\ closing' = Closing("close_all_positions", CloseOrders(positions, accepted))
         /\ hist' = [NoHist EXCEPT !.before = positions']
    /\ call' = NoCall
    /\ budget' = [budget EXCEPT !.calls = @ + 1]
    /\ UNCHANGED << sessionVars, fed, log, solver, priced, strategyVars, session_pnl, option_chain, pc, ret,
                    next_order_id >>

\* ------------------------------------------------------------ specifications
\* The state the constructors leave, with the scan counters two ticks before a
\* rescan.
Constructed ==
    /\ active_strategy = "None"
    /\ positions = << >>
    /\ session_pnl = 0
    /\ option_chain = << >>
    /\ strat_a = [entered |-> FALSE, short_leg |-> None, hedge_leg |-> None,
                  scan_counter |-> ScanEvery - 2]
    /\ pc = "idle"
    /\ frame = NoFrame
    /\ call = NoCall
    /\ ret = None
    /\ next_order_id = 1
    /\ hist = NoHist
    /\ tick = NoTick
    /\ latched = FALSE
    /\ closing = NoClosing
    /\ fed = NoFeed
    /\ log = << >>
    /\ solver = NoSolver
    /\ priced = None
    /\ budget = [ticks |-> 0, feed |-> 0, cmds |-> 0, calls |-> 0, faults |-> 0,
                 logged |-> 0]

\* logged in, during market hours
Fresh ==
    /\ kite = TRUE
    /\ market_hours = TRUE
    /\ Constructed

NeverRanB == [entered |-> FALSE, short_ce |-> None, short_pe |-> None,
              scan_counter |-> ScanEvery - 2]

\* variant B as a manual stop leaves it after a run with max_rolls - 1
\* adjustments: the stop resets neither the strategy nor the roll counter
StoppedB == [entered |-> TRUE,
             short_ce |-> Some(Ref(Symbol(ATM, "CE"), ATM, "CE", 0)),
             short_pe |-> Some(Ref(Symbol(ATM, "PE"), ATM, "PE", 0)),
             scan_counter |-> ScanEvery - 2]

\* The volatility index has ticked once and holds its level for the session.
Init ==
    /\ Fresh
    /\ vix \in VixLevels
    /\ iv_rank = IvRank(vix)
    /\ \/ roll_count = 0 /\ strat_b = NeverRanB
       \/ roll_count = max_rolls - 1 /\ strat_b = StoppedB /\ vix = 15

Next ==
    \/ TickA
    \/ ScannedA
    \/ EnterScannedA
    \/ EnterHedgeA
    \/ EnterDoneA
    \/ RollDoneA
    \/ TickB
    \/ ScannedB
    \/ EnterScannedB
    \/ NextLegB
    \/ MonitorB
    \/ AdjustDoneB
    \/ PlaceSubmit
    \/ PollLimit(BriskBroker)
    \/ PollMarket(BriskBroker)
    \/ FeedOptionTick
    \/ RestStart
    \/ WsStart
    \/ RestStop
    \/ WsStop

Spec == Init /\ [][Next]_vars

\* The process from its construction: not logged in yet; the login, the
\* closing of the market and the driver's idle wake-ups are steps.
InitSession ==
    /\ kite = FALSE
    /\ market_hours = TRUE
    /\ Constructed
    /\ vix \in VixLevels
    /\ iv_rank = IvRank(vix)
    /\ roll_count = 0
    /\ strat_b = NeverRanB

NextSession ==
    \/ Next
    \/ DriverSkip
    \/ Login
    \/ MarketClose

SpecSession == InitSession /\ [][NextSession]_vars

\* a driver loop without the handler: the exception ends the task
LoopUnguarded == "dead"

\* strategy_monitor_loop, lines 86-87: the handler logs the exception and the
\* while loop goes back to its sleep
LoopCatches == "idle"

\* the strategy code of a tick raises where the tick stands (after a scan, a
\* sleep or an executor call came back): the tick's frames are gone, what it
\* had done stays done
TickRaises ==
    /\ pc \notin {"idle", "place", LoopUnguarded}
    /\ budget.faults < MaxFaults
    /\ budget' = [budget EXCEPT !.faults = @ + 1]
    /\ pc' = LoopCatches
    /\ frame' = NoFrame
    /\ call' = NoCall
    /\ hist' = NoHist
    /\ ret' = None
    /\ tick' = [tick EXCEPT !.branch = "raised"]
    /\ UNCHANGED << sessionVars, fed, log, solver, priced, positions, closing, session_pnl, option_chain,
                    active_strategy, roll_count, strat_a, strat_b, latched, next_order_id >>

\* The process with strategy ticks that may raise.
NextFaulty ==
    \/ Next
    \/ TickRaises

SpecFaulty == Init /\ [][NextFaulty]_vars

\* OptionScanner.fetch_and_update_chain called on its own, with a broker that
\* quotes two strikes
HarnessScan ==
    /\ pc = "idle"
    /\ \E answers \in [1..Len(WideUniverse) -> ScanAnswers] :
         option_chain' = FetchWideChain(answers)
    /\ UNCHANGED << sessionVars, fed, log, solver, priced, positions, closing, session_pnl, active_strategy,
                    roll_count, strat_a, strat_b, latched, pc, frame, call, ret,
                    next_order_id, hist, tick, budget >>

NextScan == HarnessScan

SpecScan == Init /\ [][NextScan]_vars

\* datetime.datetime.now() when add_log runs: the minute of the last entry, or
\* the next one
Now == LET last == IF log = << >> THEN 0 ELSE log[Len(log)].time
       IN  { t \in {last, last + 1} : t <= MaxMinute }

\* AgentState.add_log called on its own; `text` is the number of the call
HarnessLog ==
    /\ budget.logged < MaxAppends
    /\ \E time \in Now :
         log' = AddLog(log, [text |-> budget.logged + 1, time |-> time])
    /\ budget' = [budget EXCEPT !.logged = @ + 1]
    /\ UNCHANGED << sessionVars, fed, solver, priced, positions, closing, session_pnl,
                    option_chain, active_strategy, roll_count, strat_a, strat_b, latched,
                    pc, frame, call, ret, next_order_id, hist, tick >>

NextLog == HarnessLog

SpecLog == Init /\ [][NextLog]_vars

\* the volatilities a fair value is computed at: those at which the contract's
\* fair value is at least one unit of the table
Stars(c) ==
    { star \in {50, 100, 150, 200, 250, 300, 400, 500, 750, 1000, 2000, 3000, 4000, 5000} :
        BSPrice(c, star) > 0 }

\* implied_volatility(price(S, K, T, r, star), S, K, T, r) is called
SolverStart ==
    /\ solver.at \in {"idle", "returned"}
    /\ \E c \in Contracts :
         \E star \in Stars(c) :
            solver' = SolverBegin(c, star, BSPrice(c, star))
    /\ UNCHANGED << sessionVars, fed, log, priced, positions, closing, session_pnl,
                    option_chain, active_strategy, roll_count, strat_a, strat_b, latched,
                    pc, frame, call, ret, next_order_id, hist, tick, budget >>

SolverStep ==
    /\ solver.at = "loop"
    /\ solver' = SolverPass(solver)
    /\ UNCHANGED << sessionVars, fed, log, priced, positions, closing, session_pnl,
                    option_chain, active_strategy, roll_count, strat_a, strat_b, latched,
                    pc, frame, call, ret, next_order_id, hist, tick, budget >>

\* full_greeks called on its own
GreekPrices == {-20, 0, 20, 40, 100}
HarnessGreeks ==
    /\ \E market_price \in GreekPrices, opt_type \in {"CE", "PE"} :
         priced' = Some([ market_price |-> market_price, opt_type |-> opt_type,
                          greeks |-> FullGreeks(market_price) ])
    /\ UNCHANGED << sessionVars, fed, log, solver, positions, closing, session_pnl,
                    option_chain, active_strategy, roll_count, strat_a, strat_b, latched,
                    pc, frame, call, ret, next_order_id, hist, tick, budget >>

NextPricing ==
    \/ SolverStart
    \/ SolverStep
    \/ HarnessGreeks

SpecPricing == Init /\ [][NextPricing]_vars

\* market prices a volatility is asked for (units of 1e-5 rupee): negative,
\* zero, below every fair value of the table, 3 and 200 rupees, and above
\* every fair value
IvPrices == {-100000, 0, 1, 300000, 20000000, 1000000000}

\* implied_volatility(market_price, S, K, T, r) is called with a quoted price
SolverQuote ==
    /\ solver.at \in {"idle", "returned"}
    /\ \E c \in Contracts, market_price \in IvPrices :
         solver' = SolverBegin(c, 0, market_price)
    /\ UNCHANGED << sessionVars, fed, log, priced, positions, closing, session_pnl,
                    option_chain, active_strategy, roll_count, strat_a, strat_b, latched,
                    pc, frame, call, ret, next_order_id, hist, tick, budget >>

\* last prices the stream may carry: an instrument not traded yet, or a trade
TickPrices == {0, 20}

\* MarketFeed._update_option_tick with any last price the stream may carry
HarnessTick ==
    /\ kite
    /\ \E token \in FeedTokens, last_price \in TickPrices :
         /\ fed' = [NoFeed EXCEPT !.token = token, !.last_price = last_price]
         /\ option_chain' = TickChain(option_chain, token, last_price)
         /\ positions' = TickLedger(positions, token, last_price)
         /\ session_pnl' = SumPnl(TickLedger(positions, token, last_price))
         /\ latched' = (latched /\ SumPnl(TickLedger(positions, token, last_price)) >= Target)
    /\ UNCHANGED << sessionVars, log, solver, priced, active_strategy, roll_count, strat_a,
                    strat_b, frame, tick, closing, pc, call, ret, next_order_id, hist, budget >>

\* a scan by the strategy's executor thread, between two price ticks
StreamScan ==
    /\ pc = "idle"
    /\ fed.at = "idle"
    /\ \E answers \in [1..Len(Universe) -> ScanAnswers] :
         option_chain' = FetchChain(answers)
    /\ UNCHANGED << sessionVars, fed, log, solver, priced, positions, closing, session_pnl,
                    active_strategy, roll_count, strat_a, strat_b, latched, pc, frame, call,
                    ret, next_order_id, hist, tick, budget >>

\* a sell order placed with the contract's token, as variant A's entry places
\* its short (strategies.py 193-197)
StreamPlace ==
    /\ pc = "idle"
    /\ budget.calls < MaxCalls
    /\ PlaceBegin(Symbol(ATM, "CE"), "sell", 40, TokenOf(ATM, "CE"), "idle")
    /\ pc' = "place"
    /\ budget' = [budget EXCEPT !.calls = @ + 1]
    /\ UNCHANGED << sessionVars, fed, log, solver, priced, strategyVars, positions, closing,
                    session_pnl, option_chain, ret, next_order_id >>

\* The price stream statement by statement, next to scans and orders.
NextStream ==
    \/ StreamTick
    \/ StreamChain
    \/ StreamLedger
    \/ StreamScan
    \/ StreamPlace
    \/ PlaceSubmit
    \/ PollLimit(BriskBroker)
    \/ PollMarket(BriskBroker)

SpecStream == Init /\ [][NextStream]_vars

\* volatilities solved for quoted prices, and the chain under scans and ticks
NextIv ==
    \/ SolverQuote
    \/ SolverStep
    \/ StreamScan
    \/ HarnessTick

SpecIv == Init /\ [][NextIv]_vars

\* a leg as place_order recorded it for an order of variant B's entry
EntryLeg(strike, type, side, filled_price, order_id) ==
    [ symbol |-> Symbol(strike, type), token |-> NoToken, side |-> side, qty |-> lot_size,
      entry |-> filled_price, ltp |-> filled_price, pnl |-> 0, order_id |-> order_id ]

\* Variant B has entered at the money with its four legs filled (the shorts at
\* 40, the wings at the default price), and its 60th tick has rescanned with
\* a broker that quotes two strikes.
InitLegs ==
    /\ kite = TRUE
    /\ market_hours = TRUE
    /\ vix = 30
    /\ iv_rank = IvRank(30)
    /\ active_strategy = "B"
    /\ roll_count = 0
    /\ strat_a = [entered |-> FALSE, short_leg |-> None, hedge_leg |-> None,
                  scan_counter |-> ScanEvery - 2]
    /\ strat_b = [entered |-> TRUE,
                  short_ce |-> Some(Ref(Symbol(ATM, "CE"), ATM, "CE", 0)),
                  short_pe |-> Some(Ref(Symbol(ATM, "PE"), ATM, "PE", 0)),
                  scan_counter |-> ScanEvery]
    /\ positions = << EntryLeg(ATM, "CE", "sell", 40, 1),
                      EntryLeg(ATM + condor_wing_width, "CE", "buy", DefaultLtp, 2),
                      EntryLeg(ATM, "PE", "sell", 40, 3),
                      EntryLeg(ATM - condor_wing_width, "PE", "buy", DefaultLtp, 4) >>
    /\ next_order_id = 5
    /\ \E answers \in [1..Len(WideUniverse) -> ScanAnswers] :
         option_chain = FetchWideChain(answers)
    /\ session_pnl = 0
    /\ pc = "idle"
    /\ frame = NoFrame
    /\ call = NoCall
    /\ ret = None
    /\ hist = NoHist
    /\ tick = NoTick
    /\ latched = FALSE
    /\ closing = NoClosing
    /\ fed = NoFeed
    /\ log = << >>
    /\ solver = NoSolver
    /\ priced = None
    /\ budget = [ticks |-> 0, feed |-> 0, cmds |-> 0, calls |-> 0, faults |-> 0,
                 logged |-> 0]

NextLegs ==
    \/ TickB
    \/ MonitorB
    \/ AdjustDoneB
    \/ PlaceSubmit
    \/ PollLimit(BriskBroker)
    \/ PollMarket(BriskBroker)

SpecLegs == InitLegs /\ [][NextLegs]_vars

InitExecutor ==
    /\ Fresh
    /\ vix = 15
    /\ iv_rank = IvRank(15)
    /\ roll_count = 0
    /\ strat_b = NeverRanB

NextExecutor ==
    \/ HarnessPlace
    \/ HarnessClose
    \/ HarnessCloseAll
    \/ PlaceSubmit
    \/ PollLimit(AnyBroker)
    \/ PollMarket(AnyBroker)

SpecExecutor == InitExecutor /\ [][NextExecutor]_vars

\* place_order calls alone, one after the other
NextPlace ==
    \/ HarnessPlace
    \/ PlaceSubmit
    \/ PollLimit(AnyBroker)
    \/ PollMarket(AnyBroker)

\* the event loop resumes a coroutine whose sleep is over, and a broker call
\* returns or raises
SpecPlaceFair ==
    /\ InitExecutor
    /\ [][NextPlace]_vars
    /\ WF_vars(PlaceSubmit)
    /\ WF_vars(PollLimit(AnyBroker))
    /\ WF_vars(PollMarket(AnyBroker))

\* ================================================================== claims
\* ---- order executor (SpecExecutor)
Returned == call.at = "returned"

\* an order of the call was seen COMPLETE by a poll
FillSeen == "COMPLETE" \in {hist.limit_end, hist.market_end}

\* C1: when a poll within the 10-poll window sees the LIMIT order COMPLETE,
\* place_order returns a leg whose entry is that order's average price, the
\* ledger is the ledger before the call plus exactly that leg, and neither a
\* cancel nor a MARKET order was submitted.
Inv_C1 ==
    (Returned /\ hist.limit_end = "COMPLETE") =>
        /\ ret # None
        /\ ret[1].entry = hist.seen_price
        /\ ret[1].symbol = call.symbol /\ ret[1].side = call.side
        /\ positions = Append(hist.before, ret[1])
        /\ hist.appended = 1
        /\ hist.cancels = 0
        /\ hist.markets = 0
        /\ call.polls <= LimitTimeout

\* the LIMIT order was seen filled only at the last poll of its window, at a
\* price other than the limit price
Witness_C1 ==
    /\ Returned
    /\ hist.limit_end = "COMPLETE"
    /\ call.polls = LimitTimeout
    /\ hist.seen_price # call.price

\* C2: when the LIMIT order reaches no terminal status within its 10 polls, one
\* cancel is attempted and then one MARKET order is submitted; a call submits at
\* most one LIMIT and at most one MARKET order, and never a MARKET order before
\* the cancel attempt.
Inv_C2 ==
    /\ hist.limit_end = "TIMEOUT" => (hist.cancels = 1 /\ hist.markets = 1)
    /\ hist.limits <= 1
    /\ hist.markets <= 1
    /\ hist.markets = 1 => hist.cancels = 1
    /\ hist.cancel_first

\* the LIMIT window ran out, the MARKET order was submitted and it filled
Witness_C2 ==
    /\ Returned
    /\ hist.limit_end = "TIMEOUT"
    /\ hist.market_end = "COMPLETE"
    /\ ret # None

\* C3: when a poll finds the LIMIT order REJECTED or CANCELLED, place_order
\* fails at once: no MARKET order is submitted and no leg is recorded; a MARKET
\* order is submitted only after the LIMIT window ran out.
Claim_C3 ==
    /\ hist.limit_end \in {"REJECTED", "CANCELLED"} =>
          /\ hist.markets = 0
          /\ Returned => (ret = None /\ positions = hist.before)
    /\ hist.markets > 0 => hist.limit_end = "TIMEOUT"

\* C4: a leg is appended only after an order of the call was seen filled: when
\* neither order was, place_order returns None and the ledger is as it was when
\* the call began; every leg added during a call stands for one fill seen.
Inv_C4 ==
    /\ hist.appended = (IF Returned /\ FillSeen /\ ret # None THEN 1 ELSE 0)
    /\ Len(positions) = Len(hist.before) + hist.appended
    /\ (Returned /\ ~FillSeen) => (ret = None /\ positions = hist.before)
    /\ (Returned /\ FillSeen) => (ret # None /\ positions = Append(hist.before, ret[1]))

\* with a leg from an earlier call in the ledger, both orders of a call end
\* without a fill: the LIMIT window runs out and the MARKET order is rejected
\* or runs out too
Witness_C4 ==
    /\ Returned
    /\ hist.limit_end = "TIMEOUT"
    /\ hist.market_end \in {"TIMEOUT", "REJECTED"}
    /\ ret = None
    /\ Len(positions) = 1

\* ---- strategy engine (Spec)
\* the step in which a tick runs its exit checks and goes on to its first await
BodyStep == tick'.n = tick.n + 1

\* the run context of the variant that ticked is reset
RunReset(who, a, b) ==
    /\ who = "A" => (~a.entered /\ a.short_leg = None /\ a.hedge_leg = None)
    /\ who = "B" => (~b.entered /\ b.short_ce = None /\ b.short_pe = None)

Claim_C6 ==
    [][ (BodyStep /\ tick'.branch = "target") => ~latched ]_vars

\* the third tick took the target branch with nothing open: every leg had been
\* closed by the exit before, and session_pnl still stood at its old value
Witness_C6 ==
    /\ tick.n = 3
    /\ tick.branch = "target"
    /\ tick.closes = 0
    /\ positions = << >>
    /\ session_pnl >= Target

\* C7: a variant is marked entered only when every leg of its entry was
\* confirmed filled: 2 legs for variant A, 4 legs for variant B.
Claim_C7 ==
    [][ /\ (~strat_a.entered /\ strat_a'.entered) => tick'.fills = 2
        /\ (~strat_b.entered /\ strat_b'.entered) => tick'.fills = 4 ]_vars

\* variant B is marked entered, with both short references set, after an entry
\* in which three of the four orders failed
Witness_C7 ==
    /\ strat_b.entered
    /\ strat_b.short_ce # None /\ strat_b.short_pe # None
    /\ tick.who = "B" /\ tick.branch = "enter"
    /\ tick.places = 4
    /\ tick.fills = 1
    /\ Len(positions) = 1

OpenShort(ledger, symbol) ==
    \E i \in 1..Len(ledger) : ledger[i].symbol = symbol /\ ledger[i].side = "sell"

\* every long leg of `before` is in `after`, as it was
LongsKept(before, after) ==
    \A i \in 1..Len(before) :
        before[i].side = "buy" => \E j \in 1..Len(after) : after[j] = before[i]

\* the strike 50 points further from the money
RolledStrike(ref) == IF ref.type = "CE" THEN ref.strike + RollPoints ELSE ref.strike - RollPoints

\* C9: a variant A tick that rolls closes the current short leg, starts a sell
\* order for the same kind at strike +50 (call) or -50 (put), adds one to
\* roll_count and leaves the hedge leg in the ledger as it was; when the tick
\* has ended, the strategy's short_leg names a leg that is open in the ledger.
Claim_C9 ==
    [][ /\ (BodyStep /\ tick'.who = "A" /\ tick'.branch = "roll") =>
              /\ roll_count < max_rolls
              /\ roll_count' = roll_count + 1
              /\ tick'.closes = 1
              /\ LongsKept(positions, positions')
              /\ tick'.places = 1
              /\ call'.side = "sell"
              /\ call'.symbol = Symbol(RolledStrike(strat_a.short_leg[1]),
                                       strat_a.short_leg[1].type)
        /\ (tick'.who = "A" /\ tick'.branch = "roll" /\ pc' = "idle" /\ tick' # tick) =>
              /\ strat_a'.short_leg # None
              /\ OpenShort(positions', strat_a'.short_leg[1].symbol) ]_vars

\* a roll closed the short leg and ended on the quote of the new strike: the
\* roll is counted, no order was placed, and short_leg still names the leg
\* that was closed
Witness_C9 ==
    /\ tick.who = "A" /\ tick.branch = "roll"
    /\ pc = "idle"
    /\ tick.closes = 1
    /\ tick.places = 0
    /\ roll_count > 0
    /\ strat_a.short_leg # None
    /\ ~OpenShort(positions, strat_a.short_leg[1].symbol)

\* the short leg of variant A as the ledger has it: 0 when it is not open
ShortIndex == IF strat_a.short_leg = None THEN 0
              ELSE IndexOf(positions, strat_a.short_leg[1].symbol)

\* The chain does not price the short leg otherwise than the ledger does.
ChainAgrees(chain, leg) ==
    LET i == IndexOf(chain, leg.symbol)
    IN  i = 0 \/ chain[i].ltp = leg.ltp

\* C10: on a variant A tick with a position held, when the short leg's current
\* price has decayed from its entry fill price by decay_trigger_pct or more,
\* the tick closes all open legs, deactivates the strategy and resets the run
\* context with roll_count 0, and it does not roll.
Claim_C10 ==
    [][ ( /\ BodyStep /\ tick'.who = "A"
          /\ strat_a.entered
          /\ ShortIndex # 0
          /\ positions[ShortIndex].side = "sell"
          /\ DecayReached(positions[ShortIndex].ltp, strat_a.short_leg[1].entry)
          /\ ChainAgrees(option_chain', positions[ShortIndex]) ) =>
            /\ tick'.branch \in {"decay", "target", "sl"}
            /\ tick'.closes = Len(positions)
            /\ active_strategy' = "None"
            /\ RunReset("A", strat_a', strat_b')
            /\ roll_count' = 0
            /\ tick'.places = 0 ]_vars

\* C10, where the chain holds the short leg: the decay exit is taken on the
\* chain's price of the contract, before any roll.
Prop_C10 ==
    [][ ( /\ BodyStep /\ tick'.who = "A"
          /\ strat_a.entered /\ strat_a.short_leg # None
          /\ IndexOf(option_chain', strat_a.short_leg[1].symbol) # 0
          /\ DecayReached(option_chain'[IndexOf(option_chain', strat_a.short_leg[1].symbol)].ltp,
                          strat_a.short_leg[1].entry) ) =>
            /\ tick'.branch \in {"decay", "target", "sl"}
            /\ tick'.closes = Len(positions)
            /\ active_strategy' = "None"
            /\ RunReset("A", strat_a', strat_b')
            /\ roll_count' = 0
            /\ tick'.places = 0 ]_vars
\* ---- entry selection and gate
\* indices of the chain contracts variant A may sell: score at or above the
\* threshold and open interest above the floor
EligibleA(chain) ==
    { i \in 1..Len(chain) : /\ chain[i].iv_mismatch >= iv_mismatch_threshold
                            /\ chain[i].oi > MinOI }

\* the step in which _enter of variant A runs up to its first order: from the
\* tick's start, from the 60th-tick rescan, or from the entry's own scan
EnterStepA ==
    /\ tick'.who = "A" /\ tick'.branch = "enter"
    /\ pc' # "a_enter_scan"
    /\ BodyStep \/ pc = "a_enter_scan"

\* C11: when variant A enters, the contract it sells has the highest mispricing
\* score, as the scores stand in the chain at that moment, among the contracts
\* with score >= iv_mismatch_threshold and open interest above the floor; when
\* no contract is eligible the tick submits no order.
Claim_C11 ==
    [][ EnterStepA =>
          IF EligibleA(option_chain') = {}
          THEN tick'.places = 0 /\ pc' = "idle"
          ELSE /\ tick'.places = 1
               /\ call'.side = "sell"
               /\ \E i \in EligibleA(option_chain') :
                    /\ call'.symbol = option_chain'[i].symbol
                    /\ \A j \in EligibleA(option_chain') :
                         option_chain'[j].iv_mismatch <= option_chain'[i].iv_mismatch ]_vars

\* the chain has a contract of this type with |delta| inside the short band
HasShort(chain, type) ==
    \E i \in 1..Len(chain) :
        /\ chain[i].type = type
        /\ delta_short_min <= chain[i].delta /\ chain[i].delta <= delta_short_max

\* the entry gate of variant B is shut: the rank is below the threshold, or the
\* chain lacks a call or a put in the band
GateShutB(chain) ==
    \/ iv_rank < iv_rank_entry
    \/ ~HasShort(chain, "CE")
    \/ ~HasShort(chain, "PE")

\* C12: on a tick of variant B, not entered, where iv_rank < iv_rank_entry or
\* the chain has no call or no put with |delta| in [delta_short_min,
\* delta_short_max], the tick starts no place_order call, no order id is drawn
\* and the variant stays not entered.
Prop_C12 ==
    [][ ( /\ (BodyStep /\ tick'.who = "B") \/ pc = "b_enter_scan"
          /\ ~strat_b.entered
          /\ GateShutB(option_chain') ) =>
            /\ tick'.places = 0
            /\ next_order_id' = next_order_id
            /\ ~strat_b'.entered
            /\ call'.at = "none"
            /\ pc' \in {"idle", "b_enter_scan"} ]_vars

\* variant B, with the rank above the threshold, scanned a chain that has a
\* call in the band and no put in it, and ended its tick without an order
Witness_C12 ==
    /\ tick.who = "B" /\ tick.branch = "enter"
    /\ pc = "idle"
    /\ tick.places = 0
    /\ iv_rank >= iv_rank_entry
    /\ HasShort(option_chain, "CE") /\ ~HasShort(option_chain, "PE")
    /\ ~strat_b.entered
    /\ positions = << >>

\* ---- closing legs (SpecExecutor)
\* the step in which a close operation runs
CloseStep == closing'.n = closing.n + 1

\* the leg is in the ledger
InLedger(ledger, leg) == \E i \in 1..Len(ledger) : ledger[i] = leg

\* C13: close_position submits, for a leg of the ledger, one MARKET order on
\* the opposite side for the leg's full quantity; when the submission is
\* accepted the leg is out of the ledger at the end of that same step, with no
\* poll of the order in between; when the submission raises the leg stays, and
\* in both cases the caller goes on where it was.
Prop_C13 ==
    [][ CloseStep =>
          /\ \A k \in 1..Len(closing'.orders) :
               LET o == closing'.orders[k]
               IN  /\ InLedger(positions, o.leg)
                   /\ o.symbol = o.leg.symbol
                   /\ o.side # o.leg.side /\ o.side \in Sides
                   /\ o.qty = o.leg.qty
                   /\ o.order_type = "MARKET"
                   /\ o.accepted => ~InLedger(positions', o.leg)
                   /\ ~o.accepted => InLedger(positions', o.leg)
          /\ closing'.op = "close_position" =>
               /\ Len(closing'.orders) = 1
               /\ Len(positions') =
                     Len(positions) - (IF closing'.orders[1].accepted THEN 1 ELSE 0)
          /\ pc' = pc
          /\ call'.at \notin {"limit", "market"} ]_vars

\* with two legs open, close_position on the first was accepted: the second
\* leg is the ledger
Witness_C13 ==
    /\ closing.op = "close_position"
    /\ closing.orders[1].accepted
    /\ closing.orders[1].leg.side = "sell"
    /\ closing.orders[1].side = "buy"
    /\ Len(positions) = 1
    /\ positions[1].side = "buy"
    /\ budget.calls = MaxCalls

\* C14: close_all_positions submits exactly one close for every leg that is in
\* the ledger when it starts, in ledger order, and for no other leg; no leg is
\* added to the ledger by it; a leg stays exactly when its submission was
\* refused, so when every submission is accepted none of the legs present at
\* the start remains.
Prop_C14 ==
    [][ (CloseStep /\ closing'.op = "close_all_positions") =>
          /\ Len(closing'.orders) = Len(positions)
          /\ \A i \in 1..Len(positions) : closing'.orders[i].leg = positions[i]
          /\ \A i \in 1..Len(positions) :
               InLedger(positions', positions[i]) <=> ~closing'.orders[i].accepted
          /\ \A j \in 1..Len(positions') : InLedger(positions, positions'[j])
          /\ (\A i \in 1..Len(positions) : closing'.orders[i].accepted) =>
                positions' = << >> ]_vars

\* close_all_positions ran on a ledger of two legs and both closes were accepted
Witness_C14 ==
    /\ closing.op = "close_all_positions"
    /\ Len(closing.orders) = 2
    /\ closing.orders[1].accepted /\ closing.orders[2].accepted
    /\ closing.orders[1].leg.order_id < closing.orders[2].leg.order_id
    /\ positions = << >>

\* ---- session profit and loss, price ticks
\* C15: in every state with no price tick mid-processing (a price tick is one
\* step here, so in every state) session_pnl is the sum of the pnl of the legs
\* in the ledger; with an empty ledger it is 0.
Claim_C15 == session_pnl = SumPnl(positions)

\* every leg has been closed and session_pnl still holds the loss of a leg
\* that is no longer in the ledger
Witness_C15 ==
    /\ positions = << >>
    /\ closing.n > 0
    /\ session_pnl < 0

\* the token the instrument master has for a leg's symbol
InstrumentToken(symbol) == TokenOf(symbol[2], symbol[3])

\* the step in which the price stream delivers an option tick
FeedStep == budget'.feed = budget.feed + 1

\* C16: when an option tick arrives, every leg of the ledger on that
\* instrument, however it was opened, has its ltp set to the tick's last price
\* and its pnl to (ltp - entry) * qty * (+1 if bought, -1 if sold).
Claim_C16 ==
    [][ FeedStep =>
          \A i \in 1..Len(positions') :
              InstrumentToken(positions'[i].symbol) = fed'.token =>
                 /\ positions'[i].ltp = fed'.last_price
                 /\ positions'[i].pnl =
                       (positions'[i].ltp - positions'[i].entry) * positions'[i].qty
                           * (IF positions'[i].side = "buy" THEN 1 ELSE -1) ]_vars

\* a tick arrived for the instrument of an open leg at a price other than the
\* leg's, and the leg kept its price and its pnl of 0
Witness_C16 ==
    \E i \in 1..Len(positions) :
        /\ InstrumentToken(positions[i].symbol) = fed.token
        /\ positions[i].ltp # fed.last_price
        /\ positions[i].ltp = positions[i].entry
        /\ positions[i].pnl = 0
        /\ positions[i].token = NoToken

\* ---- commands and the driver loop
\* the step in which a stop command (REST or WebSocket) stops the active variant
StopStep ==
    /\ budget'.cmds = budget.cmds + 1
    /\ active_strategy # "None"
    /\ active_strategy' = "None"

\* C17: when a stop command has run, active_strategy is None and the run of
\* the variant that was active is reset: entered false, leg references
\* cleared, roll_count 0.
Claim_C17 ==
    [][ StopStep =>
          /\ RunReset(active_strategy, strat_a', strat_b')
          /\ roll_count' = 0 ]_vars

\* variant A entered, was stopped by command with every close accepted, and is
\* still marked entered with its leg references set and nothing in the ledger
Witness_C17 ==
    /\ active_strategy = "None"
    /\ pc = "idle"
    /\ tick.who = "A" /\ tick.branch = "enter"
    /\ closing.op = "close_all_positions"
    /\ positions = << >>
    /\ strat_a.entered
    /\ strat_a.short_leg # None /\ strat_a.hedge_leg # None

\* the step in which the driver loop wakes from its sleep
DriverStep == budget'.ticks = budget.ticks + 1

\* C18: a wake-up of the driver loop outside market hours or before the login
\* runs no tick: no order is submitted and the strategies, the ledger, the
\* chain, the roll counter and the active variant are as they were.
Prop_C18 ==
    [][ (DriverStep /\ ~(market_hours /\ kite)) =>
          /\ UNCHANGED << positions, option_chain, session_pnl, active_strategy,
                          roll_count, strat_a, strat_b, latched, closing,
                          next_order_id, call, hist, ret, frame, pc >>
          /\ tick'.n = tick.n
          /\ tick'.skips = tick.skips + 1 ]_vars

\* variant A holds both legs of its entry, made on the second tick; the market
\* has closed and the driver has woken once since without running a tick
Witness_C18 ==
    /\ kite /\ ~market_hours
    /\ active_strategy = "A"
    /\ strat_a.entered
    /\ Len(positions) = 2
    /\ tick.who = "A" /\ tick.n = 2 /\ tick.branch = "enter"
    /\ tick.skips = 1
    /\ pc = "idle"


\* ------------------------------------------------- broker calls that raise
\* C19: whenever a broker call of place_order raised (the LIMIT submit, a
\* poll, the cancel or the MARKET submit), the call returns the failure
\* result None and the ledger is the ledger before the call.
Claim_C19 ==
    (Returned /\ hist.raised # {}) => (ret = None /\ positions = hist.before)

\* the cancel of a place_order call raised, and the call returned a leg
Witness_C19 ==
    /\ Returned
    /\ "cancel" \in hist.raised
    /\ ret # None
    /\ positions = Append(hist.before, ret[1])

\* --------------------------------------------------------- ticks that raise
RaiseStep == budget'.faults = budget.faults + 1

\* the driver loop is at its sleep with a variant active, logged in, in market
\* hours, and has ticks left in the bounded run
DriverDue(variant) ==
    /\ pc = "idle"
    /\ DriverAwake
    /\ active_strategy = variant
    /\ budget.ticks < MaxTicks

\* C20: a tick that raises leaves the driver loop at its sleep with the same
\* variant active; the loop never ends; and whenever the loop is at its sleep
\* after a tick raised, with a variant active, the next tick of that variant can
\* start.
Prop_C20 ==
    [][ /\ RaiseStep => (pc' = "idle" /\ active_strategy' = active_strategy)
        /\ pc' # "dead"
        /\ (budget.faults > 0 /\ DriverDue("A")) => ENABLED TickA
        /\ (budget.faults > 0 /\ DriverDue("B")) => ENABLED TickB ]_vars

\* after a tick raised, a later tick of the still active variant ran to its end
Witness_C20 ==
    /\ budget.faults > 0
    /\ pc = "idle"
    /\ tick.branch \notin {"-", "raised"}
    /\ active_strategy \in {"A", "B"}

\* ------------------------------------------------------ mispricing score
\* the contract's implied volatility is the one solved from its price, its
\* score is that volatility minus the reference level v, and its flag says
\* whether the score reaches the threshold
Priced(o, v) ==
    /\ o.iv = FullGreeks(o.ltp).iv
    /\ o.iv_mismatch = o.iv - v
    /\ o.overpriced = (o.iv_mismatch >= iv_mismatch_threshold)

EnumeratedBefore(x, y) ==
    \/ x.strike < y.strike
    \/ x.strike = y.strike /\ x.type = "CE" /\ y.type = "PE"

\* C22: the chain a full scan stores is in non-increasing order of iv_mismatch,
\* and of two contracts with equal iv_mismatch the one enumerated first
\* (ascending strike, CE before PE) comes first.  The two conditions leave one
\* order for a given set of contracts, so a second scan of the same snapshot
\* stores the same sequence.
Inv_C22 ==
    \A i, j \in 1..Len(option_chain) :
        i < j =>
           /\ option_chain[i].iv_mismatch >= option_chain[j].iv_mismatch
           /\ option_chain[i].iv_mismatch = option_chain[j].iv_mismatch
                 => EnumeratedBefore(option_chain[i], option_chain[j])

\* a stored chain of four contracts: the two of the higher strike tie and
\* lead, the two of the lower strike tie and follow
Witness_C22 ==
    /\ Len(option_chain) = 4
    /\ option_chain[1].strike > option_chain[3].strike
    /\ option_chain[1].iv_mismatch = option_chain[2].iv_mismatch
    /\ option_chain[2].iv_mismatch > option_chain[3].iv_mismatch
    /\ option_chain[3].iv_mismatch = option_chain[4].iv_mismatch
    /\ option_chain[3].strike = option_chain[4].strike

\* --------------------------------------------------------------- event log
\* C23: after any number of add_log calls the log holds at most 200 entries;
\* they are the entries of the most recent calls, without a gap, in the order
\* of the calls; and their times never decrease along the log.
Inv_C23 ==
    /\ Len(log) <= LogCap
    /\ Len(log) = (IF budget.logged <= LogCap THEN budget.logged ELSE LogCap)
    /\ \A i \in 1..Len(log) : log[i].text = budget.logged - Len(log) + i
    /\ \A i \in 1..(Len(log) - 1) : log[i].time <= log[i + 1].time

\* more than 200 entries have been appended: the log is full, its oldest entry
\* is not the first one appended, and the minute changed within it
Witness_C23 ==
    /\ budget.logged > LogCap + 1
    /\ Len(log) = LogCap
    /\ log[1].text > 1
    /\ log[1].time < log[LogCap].time

\* ------------------------------------------------------------ pricing engine
\* C24: implied_volatility applied to the fair value at a volatility star
\* returns a volatility within 1e-3 (one thousandth) of star.
Claim_C24 ==
    solver.at = "returned" => Abs(solver.sigma - solver.star) <= 1

\* the call struck far out of the money with a day to expiry, priced at a
\* volatility of 1.0: the call returned its initial guess without a pass
\* changing it
Witness_C24 ==
    /\ solver.at = "returned"
    /\ solver.c = "far_day"
    /\ solver.star = 1000
    /\ solver.market_price > 0
    /\ solver.sigma = SigmaGuess
    /\ solver.iter = 0

\* C25: full_greeks called with a market price <= 0, for a call or a put,
\* returns iv, delta, gamma, theta, vega and fair_price all 0.
Inv_C25 ==
    (priced # None /\ priced[1].market_price <= 0) =>
        /\ priced[1].greeks.iv = 0
        /\ priced[1].greeks.delta = 0
        /\ priced[1].greeks.gamma = 0
        /\ priced[1].greeks.theta = 0
        /\ priced[1].greeks.vega = 0
        /\ priced[1].greeks.fair_price = 0

\* full_greeks has returned for a put with a negative market price
Witness_C25 ==
    /\ priced # None
    /\ priced[1].market_price < 0
    /\ priced[1].opt_type = "PE"
    /\ priced[1].greeks = AllZero

\* ------------------------------------------------------------ order of a tick
\* C26: a tick that takes the profit-target or the stop-loss exit does so as
\* its first action: it comes to the exit checks straight from the driver's
\* call, and no rescan of the chain has run in the tick before its closing
\* orders.
Claim_C26 ==
    [][ (BodyStep /\ tick'.branch \in {"target", "sl"}) =>
            /\ pc = "idle"
            /\ option_chain' = option_chain ]_vars

\* variant A's 60th tick has ended with the profit-target exit
Witness_C26 ==
    /\ pc = "idle"
    /\ tick.who = "A"
    /\ tick.branch = "target"
    /\ strat_a.scan_counter % ScanEvery = 0
    /\ closing.n > 0

\* C27: a tick that passes the exit checks attempts an entry when the ledger is
\* empty (for variant B that includes finding the IV rank below the entry
\* level) and monitors the held legs when it is not.
Claim_C27 ==
    [][ (BodyStep /\ tick'.branch \notin {"target", "sl"}) =>
            /\ positions = << >> => tick'.branch \in {"enter", "wait"}
            /\ positions # << >> => tick'.branch \in {"monitor", "decay", "roll"} ]_vars

\* variant A is active with a leg open in the ledger, and its last tick
\* neither attempted an entry nor monitored
Witness_C27 ==
    /\ active_strategy = "A"
    /\ pc = "idle"
    /\ positions # << >>
    /\ tick.who = "A"
    /\ tick.branch = "none"
    /\ ~strat_a.entered

\* ------------------------------------------------------ readers of the stream
\* C28: in every state another thread can read, each contract of the chain
\* has its implied volatility, delta, score and flag from the same price as
\* its ltp, and each leg of the ledger has the pnl of its ltp.
Claim_C28 ==
    /\ \A i \in 1..Len(option_chain) :
          /\ Priced(option_chain[i], vix)
          /\ option_chain[i].delta = FullGreeks(option_chain[i].ltp).delta
    /\ \A i \in 1..Len(positions) : positions[i].pnl = CalcPositionPnl(positions[i])

\* the stream has written a leg's new price and not yet its pnl, on a chain
\* whose contract it has repriced
Witness_C28 ==
    /\ fed.at = "pnl"
    /\ positions[fed.leg].ltp = fed.last_price
    /\ positions[fed.leg].pnl # CalcPositionPnl(positions[fed.leg])
    /\ \E i \in 1..Len(option_chain) :
          option_chain[i].token = fed.token /\ option_chain[i].ltp = fed.last_price

\* ------------------------------------------------------------ failed rescans
\* the step in which a scan awaited by a tick has run and the tick goes on
ScanStep ==
    /\ pc \in {"a_scan", "a_enter_scan", "b_scan", "b_enter_scan"}
    /\ pc' # pc
    /\ tick'.branch # "raised"

\* what a scan stores when every quote call of it raises
AllFailed == FetchChain([ i \in 1..Len(Universe) |-> Dropped ])

\* C29: a rescan in which every broker call fails leaves the stored chain as
\* it was before the rescan.
Claim_C29 ==
    [][ (ScanStep /\ option_chain' = AllFailed) => option_chain' = option_chain ]_vars

\* variant A entered from a chain, its 60th tick has rescanned, and the stored
\* chain is empty
Witness_C29 ==
    /\ option_chain = << >>
    /\ strat_a.entered
    /\ strat_a.scan_counter % ScanEvery = 0
    /\ tick.who = "A"
    /\ pc = "idle"

\* ------------------------------------------------- variant B wing adjustment
ShortOf(opt_type) == IF opt_type = "CE" THEN strat_b.short_ce ELSE strat_b.short_pe

OtherSide(opt_type) == IF opt_type = "CE" THEN "PE" ELSE "CE"

\* the chain holds the short leg of this side with a delta past the threshold
Breached(opt_type) ==
    /\ ShortOf(opt_type) # None
    /\ \E i \in 1..Len(option_chain) :
          /\ option_chain[i].symbol = ShortOf(opt_type)[1].symbol
          /\ i = IndexOf(option_chain, ShortOf(opt_type)[1].symbol)
          /\ option_chain[i].delta > adjustment_delta

\* _monitor looks at a side whose short leg alone is breached, with roll
\* budget left: _adjust_wing runs up to its first await
AdjustStep ==
    /\ pc = "b_monitor"
    /\ pc' # pc \/ frame' # frame
    /\ Breached(frame.sides[1])
    /\ ~Breached(OtherSide(frame.sides[1]))
    /\ RollAllowed

\* _adjust_wing goes on after the replacement order returned
AdjustReturn == pc = "b_adjust_done" /\ pc' # pc

\* C30: when only one short leg of variant B is past adjustment_delta, that
\* leg alone is closed and a short leg 50 points further out on the same side
\* replaces it; the other legs and the reference to the other side stay as
\* they are and roll_count goes up by exactly one.
Claim_C30 ==
    [][ /\ AdjustStep =>
             LET side  == frame.sides[1]
                 short == ShortOf(side)[1]
                 j     == IndexOf(positions, short.symbol)
             IN  /\ roll_count' = roll_count + 1
                 /\ strat_b' = strat_b
                 /\ j # 0
                 /\ positions[j].side = "sell"
                 /\ positions' = RemoveFirst(positions, positions[j])
                 /\ pc' = "place"
                 /\ call'.side = "sell"
                 /\ call'.symbol = Symbol(short.strike
                                      + (IF side = "CE" THEN RollPoints ELSE -RollPoints), side)
        /\ AdjustReturn =>
             LET side == frame.opt[1].type
             IN  /\ ret # None
                 /\ strat_b' = IF side = "CE" THEN [strat_b EXCEPT !.short_ce = frame.opt]
                               ELSE [strat_b EXCEPT !.short_pe = frame.opt]
                 /\ positions' = positions
                 /\ roll_count' = roll_count
                 /\ \E i \in 1..Len(positions) :
                       positions[i].symbol = frame.opt[1].symbol /\ positions[i].side = "sell"
      ]_vars

\* the breached call leg is closed, the quote for its replacement raised, and
\* the pass is over: the counter moved, no call leg is short and the reference
\* still names the closed contract
Witness_C30 ==
    /\ pc = "idle"
    /\ tick.who = "B"
    /\ tick.branch = "monitor"
    /\ tick.closes = 1
    /\ tick.places = 0
    /\ roll_count = 1
    /\ strat_b.short_ce # None
    /\ IndexOf(positions, strat_b.short_ce[1].symbol) = 0
    /\ Len(positions) = 3

\* ------------------------------------------------------- place_order returns
InCall == call.at \in {"submit", "limit", "market"}

\* C31: whatever the broker answers, a place_order call polls the LIMIT order
\* at most 10 times and the MARKET order at most 15 times, and then returns
\* a leg or None.
Prop_C31 ==
    /\ [](/\ call.at = "limit" => call.polls < LimitTimeout
          /\ call.at = "market" => call.polls < MarketTimeout
          /\ Returned =>
                /\ call.polls <= (IF call.market_status = "NONE" THEN LimitTimeout
                                  ELSE MarketTimeout)
                /\ ret = None \/ (ret[1] = NewLeg(call, hist.seen_price)
                                    /\ positions = Append(hist.before, ret[1])))
    /\ InCall ~> Returned

\* a call returned None after the broker showed neither order in any of the
\* 10 and 15 polls, a poll having raised
Witness_C31 ==
    /\ Returned
    /\ ret = None
    /\ hist.limit_end = "TIMEOUT"
    /\ hist.market_end = "TIMEOUT"
    /\ call.polls = MarketTimeout
    /\ call.limit_status = "OPEN"
    /\ call.market_status = "OPEN"
    /\ "poll" \in hist.raised

\* --------------------------------------------------- range of the volatility
\* C32: implied_volatility returns 0 for a market price <= 0 and otherwise a
\* volatility in [0.001, 5.0] after at most 200 passes, whether it converged,
\* stopped on a vega near zero or ran out of passes; every contract of the
\* chain carries an iv between 0.1 and 500 percent.
Inv_C32 ==
    /\ solver.iter <= SolverMaxIter
    /\ solver.at = "returned" =>
          IF solver.market_price <= 0 THEN solver.sigma = 0
          ELSE SigmaMin <= solver.sigma /\ solver.sigma <= SigmaMax
    /\ \A i \in 1..Len(option_chain) :
          10 * option_chain[i].iv >= 1 /\ option_chain[i].iv <= 500

\* a call for a price below every fair value has used its 200 passes and
\* returned the floor, while the chain holds a contract whose last tick
\* carried the price 0
Witness_C32 ==
    /\ solver.at = "returned"
    /\ solver.market_price > 0
    /\ solver.iter = SolverMaxIter
    /\ solver.sigma = SigmaMin
    /\ \E i \in 1..Len(option_chain) :
          option_chain[i].ltp = 0 /\ option_chain[i].token = fed.token

\* ------------------------------------------------- stop during a placement
\* C33: a stop command that runs while a tick's order placement is waiting
\* for its fill, with every close order accepted, leaves, once the placement
\* has returned and the tick is over, no leg in the ledger and the stopped
\* variant not marked entered.
Claim_C33 ==
    ( /\ closing.op = "close_all_positions"
      /\ closing.at = "place"
      /\ \A k \in 1..Len(closing.orders) : closing.orders[k].accepted
      /\ active_strategy = "None"
      /\ pc = "idle" ) =>
        /\ positions = << >>
        /\ tick.who = "A" => ~strat_a.entered
        /\ tick.who = "B" => ~strat_b.entered

\* variant A's entry was stopped while its short leg's order was waiting: the
\* stop found nothing to close, both orders filled afterwards, and the tick
\* ended with two legs in the ledger, the variant entered and no strategy
\* active
Witness_C33 ==
    /\ closing.op = "close_all_positions"
    /\ closing.at = "place"
    /\ closing.orders = << >>
    /\ active_strategy = "None"
    /\ pc = "idle"
    /\ tick.who = "A" /\ tick.branch = "enter"
    /\ Len(positions) = 2
    /\ strat_a.entered

\* ------------------------------------------------- fills at the broker per call
\* the orders of the call that the broker has filled
FilledAtBroker ==
    (IF call.limit_status = "COMPLETE" THEN 1 ELSE 0)
        + (IF call.market_status = "COMPLETE" THEN 1 ELSE 0)

\* C34: within one place_order call the broker fills at most one order, and
\* when the call has returned the legs it recorded are as many as the orders
\* filled: never are the LIMIT and the MARKET order both filled with one leg
\* in the ledger.
Claim_C34 ==
    /\ FilledAtBroker <= 1
    /\ Returned => hist.appended = FilledAtBroker

\* the LIMIT order filled at the broker without a poll of its window seeing
\* it, the cancel raised, the MARKET order filled and was seen: two fills, one
\* leg
Witness_C34 ==
    /\ Returned
    /\ call.limit_status = "COMPLETE"
    /\ hist.limit_end = "TIMEOUT"
    /\ "cancel" \in hist.raised
    /\ call.market_status = "COMPLETE"
    /\ hist.market_end = "COMPLETE"
    /\ hist.appended = 1
    /\ positions = Append(hist.before, ret[1])

\* -------------------------------------------------- what the roll counter counts
\* the step in which a tick that monitored or rolled is over
MonitorEnd ==
    /\ pc' = "idle"
    /\ pc # "idle" \/ tick'.n # tick.n
    /\ tick'.branch \in {"monitor", "roll"}

\* the short-leg references of the variant name legs of the ledger
RefsInLedger(who, a, b, ledger) ==
    /\ (who = "A" /\ a.short_leg # None) => IndexOf(ledger, a.short_leg[1].symbol) # 0
    /\ (who = "B" /\ b.short_ce # None) => IndexOf(ledger, b.short_ce[1].symbol) # 0
    /\ (who = "B" /\ b.short_pe # None) => IndexOf(ledger, b.short_pe[1].symbol) # 0

\* C35: over a tick that monitors or rolls, roll_count grows by the number of
\* replacement short legs that were filled and recorded; a roll whose quote
\* or order failed takes nothing from the roll budget and leaves the short-leg
\* references naming legs of the ledger.
Claim_C35 ==
    [][ MonitorEnd =>
          /\ roll_count' = tick'.rolls + tick'.fills
          /\ tick'.fills < roll_count' - tick'.rolls =>
                RefsInLedger(tick'.who, strat_a', strat_b', positions') ]_vars

\* variant A's roll closed the short leg and the quote for the replacement
\* raised: the tick is over with the counter one higher, no replacement and
\* the reference naming the closed leg
Witness_C35 ==
    /\ pc = "idle"
    /\ tick.who = "A" /\ tick.branch = "roll"
    /\ tick.closes = 1 /\ tick.places = 0 /\ tick.fills = 0
    /\ roll_count = tick.rolls + 1
    /\ strat_a.short_leg # None
    /\ IndexOf(positions, strat_a.short_leg[1].symbol) = 0
    /\ Len(positions) = 1

\* ------------------------------------------------------ size of the ledger
\* C36: the ledger never holds more than max_legs open legs, whatever the
\* activations, entries, rolls (also with a close order that fails), switches
\* and stops.
Claim_C36 == Len(positions) <= max_legs

\* variant B's four legs, and three replacement short legs sold by
\* adjustments whose close order the broker refused
Witness_C36 ==
    /\ Len(positions) = max_legs + 1
    /\ strat_b.entered
    /\ roll_count = 3
    /\ closing.op = "close_position"
    /\ ~closing.orders[1].accepted
    /\ pc = "idle"

\* --------------------------------------------------------------- activation
\* the step in which a command changes which strategy is active to a strategy
Activation ==
    /\ budget'.cmds = budget.cmds + 1
    /\ active_strategy' # active_strategy
    /\ active_strategy' # "None"

\* C37: on the REST and the WebSocket path alike, active_strategy is always
\* None, A or B, a command activates a strategy only when none is active and
\* the broker session exists, and an activate command that arrives while a
\* strategy runs leaves active_strategy and the ledger as they are.
Claim_C37 ==
    /\ [](active_strategy \in {"None", "A", "B"})
    /\ [][ Activation =>
             /\ active_strategy = "None"
             /\ kite
             /\ positions' = positions ]_vars

\* variant A has entered with its two legs and a WebSocket start has made B
\* the active strategy
Witness_C37 ==
    /\ active_strategy = "B"
    /\ tick.who = "A" /\ tick.branch = "enter"
    /\ strat_a.entered
    /\ Len(positions) = 2
    /\ ~strat_b.entered
    /\ closing.n = 0
    /\ pc = "idle"

====
